---- MODULE Spec2Model ----
(***************************************************************************)
(* Model of imgaug/augmentables/normalization.py: the classification of    *)
(* polymorphic augmentable inputs into normalization types, the five       *)
(* forward normalizers and the five inverse normalizers.                   *)
(*                                                                         *)
(* Python values are records with the fields                               *)
(*   t      "None" | "num" | "str" | "array" | "list" | "tuple" | "obj"    *)
(*   cls    the class name (type(v).__name__)                              *)
(*   dtype  the numpy dtype name of an array or numpy scalar               *)
(*   shape  the shape of an array, or the image shape of an *OnImage       *)
(*   data   the numbers held: the value of a number, the row-major         *)
(*          elements of an array                                           *)
(*   items  the elements of a list or tuple, the attributes of an object   *)
(***************************************************************************)
EXTENDS Integers, Sequences, FiniteSets, TLC

\* ------------------------------------------------------------------ bounds
\* the deepest chain of wrapping lists put around a leaf
MaxDepth == 5
\* the longest list of image shapes passed as 'shapes'
MaxShapes == 3

\* ------------------------------------------------------------------ values
V(t, cls, dtype, shape, data, items) ==
  [t |-> t, cls |-> cls, dtype |-> dtype, shape |-> shape, data |-> data,
   items |-> items]

NoneV == V("None", "NoneType", "", <<>>, <<>>, <<>>)
Num(v) == V("num", "int", "int", <<>>, <<v>>, <<>>)
Str == V("str", "str", "", <<>>, <<>>, <<>>)
Arr(dtype, shape, data) == V("array", "ndarray", dtype, shape, data, <<>>)
List(items) == V("list", "list", "", <<>>, <<>>, items)
Tuple(items) == V("tuple", "tuple", "", <<>>, <<>>, items)
Obj(cls, shape, data, items) == V("obj", cls, "", shape, data, items)

is_np_array(v) == v.t = "array"
is_string(v) == v.t = "str"
is_iterable(v) == v.t \in {"list", "tuple", "str", "array"}
is_single_number(v) == v.t = "num"
isinstance_tuple(v) == v.t = "tuple"
isinstance_list(v) == v.t = "list"

RECURSIVE Prod(_)
Prod(s) == IF Len(s) = 0 THEN 1 ELSE Head(s) * Prod(Tail(s))

RECURSIVE Flatten(_)
Flatten(ss) == IF Len(ss) = 0 THEN <<>> ELSE Head(ss) \o Flatten(Tail(ss))

Range(s) == {s[i] : i \in 1..Len(s)}

\* numpy dtype.kind
DtypeKind(dtype) ==
  CASE dtype \in {"float32", "float64"} -> "f"
    [] dtype \in {"int32", "int64"} -> "i"
    [] dtype \in {"uint8"} -> "u"
    [] dtype = "bool" -> "b"
    [] dtype = "complex64" -> "c"
    [] OTHER -> "O"

\* the value an integer takes when stored as IEEE float32 (24 bit mantissa,
\* round half to even); exact up to 2^24, spacing 2 up to 2^25
Pow2_24 == 16777216
Abs(v) == IF v < 0 THEN 0 - v ELSE v
ToFloat32(v) ==
  IF Abs(v) <= Pow2_24 \/ v % 2 = 0 THEN v
  ELSE IF ((v - 1) \div 2) % 2 = 0 THEN v - 1 ELSE v + 1

\* ndarray.astype(dtype) on the stored numbers
CastTo(dtype, v) ==
  CASE dtype = "float32" -> ToFloat32(v)
    [] dtype = "uint8" -> v % 256
    [] dtype = "bool" -> IF v = 0 THEN 0 ELSE 1
    [] OTHER -> v

\* len(v) of a sized value; an array is sized when it has at least one axis
HasLen(v) == v.t \in {"list", "tuple"} \/ (v.t = "array" /\ Len(v.shape) > 0)
len(v) == IF v.t = "array" THEN v.shape[1] ELSE Len(v.items)

\* v[i] for i in 1..len(v): an element, or the i-th slice along axis 0
Index(v, i) ==
  IF v.t = "array"
  THEN LET sub == Tail(v.shape)
           m == Prod(sub)
       IN Arr(v.dtype, sub, SubSeq(v.data, (i - 1) * m + 1, i * m))
  ELSE v.items[i]

\* ---------------------------------------------------------------- outcomes
\* what a call produces: a returned value (exc = "") or a raised exception
Outcome(exc, kind, val, tag, to, n, actual, arg, valid) ==
  [exc |-> exc, kind |-> kind, val |-> val, tag |-> tag, to |-> to, n |-> n,
   actual |-> actual, arg |-> arg, valid |-> valid]
Ok(v) == Outcome("", "", v, "", "", 0, 0, "", <<>>)
OkTag(s) == Outcome("", "", NoneV, s, "", 0, 0, "", <<>>)
Raise(exc, kind) == Outcome(exc, kind, NoneV, "", "", 0, 0, "", <<>>)
Failed(o) == o.exc # ""

\* ------------------------------------------------------------------ finder
Found(nonempty, success, parents) ==
  [nonempty |-> nonempty, success |-> success, parents |-> parents]

\* a value of this section is a tree and never its own element, so the guard
\* 'attr[0] is attr' cannot fire here; find_first_nonempty_ref models it on
\* lists held by reference
RECURSIVE find_first_nonempty(_, _), find_in_children(_, _, _, _)
find_first_nonempty(attr, parents) ==
  IF attr.t = "None" \/ is_np_array(attr)
  THEN Found(attr, TRUE, parents)
  ELSE IF is_iterable(attr) /\ ~is_string(attr)
  THEN IF len(attr) = 0
       THEN Found(NoneV, FALSE, parents)
       ELSE find_in_children(attr, parents, 1, Found(NoneV, FALSE, parents))
  ELSE Found(attr, TRUE, parents)

\* the loop that keeps the last of the deepest failed attempts
RECURSIVE find_in_children_last(_, _, _, _)
find_in_children_last(attr, parents, i, deepest) ==
  IF i > len(attr)
  THEN deepest
  ELSE LET r == find_first_nonempty(Index(attr, i), Append(parents, attr))
       IN IF r.success
          THEN r
          ELSE IF Len(r.parents) >= Len(deepest.parents)
               THEN find_in_children_last(attr, parents, i + 1, r)
               ELSE find_in_children_last(attr, parents, i + 1, deepest)

\* the loop 'for attr_i in attr' from its i-th element on
find_in_children(attr, parents, i, deepest) ==
  IF i > len(attr)
  THEN deepest
  ELSE LET r == find_first_nonempty(Index(attr, i), Append(parents, attr))
       IN IF r.success
          THEN r
          ELSE IF Len(r.parents) > Len(deepest.parents)
               THEN find_in_children(attr, parents, i + 1, r)
               ELSE find_in_children(attr, parents, i + 1, deepest)

\* -------------------------------------------------------------- classifier
MaxParents == 4

RECURSIVE IterPrefix(_)
IterPrefix(k) == IF k <= 0 THEN "" ELSE "iterable-" \o IterPrefix(k - 1)

kind_map(kind) ==
  CASE kind = "f" -> "float"
    [] kind = "u" -> "uint"
    [] kind = "i" -> "int"
    [] kind = "b" -> "bool"
    [] OTHER -> kind

\* _nonempty_info_to_type_str that checks the depth only once a leaf was found
_nonempty_info_to_type_str_late_cap(nonempty, success, parents) ==
  LET parent_iters == IterPrefix(Len(parents))
      last == parents[Len(parents)]
      is_parent_tuple == Len(parents) >= 1 /\ isinstance_tuple(last)
      is_only_numbers_in_tuple ==
        /\ Len(last.items) > 0
        /\ \A i \in 1..Len(last.items) : is_single_number(last.items[i])
  IN IF ~success
     THEN OkTag(parent_iters \o "iterable[empty]")
     ELSE IF Len(parents) > MaxParents
     THEN Raise("AssertionError", "too_deep")
     ELSE IF is_parent_tuple /\ is_only_numbers_in_tuple
     THEN OkTag(IterPrefix(Len(parents) - 1) \o "tuple[number,size="
                \o ToString(Len(last.items)) \o "]")
     ELSE IF nonempty.t = "None"
     THEN OkTag("None")
     ELSE IF is_np_array(nonempty)
     THEN OkTag(parent_iters \o "array["
                \o kind_map(DtypeKind(nonempty.dtype)) \o "]")
     ELSE OkTag(parent_iters \o nonempty.cls)
_nonempty_info_to_type_str(nonempty, success, parents) ==
  IF Len(parents) > MaxParents
  THEN Raise("AssertionError", "too_deep")
  ELSE
    LET parent_iters == IterPrefix(Len(parents))
        last == parents[Len(parents)]
        is_parent_tuple == Len(parents) >= 1 /\ isinstance_tuple(last)
        is_only_numbers_in_tuple ==
          /\ Len(last.items) > 0
          /\ \A i \in 1..Len(last.items) : is_single_number(last.items[i])
    IN IF ~success
       THEN OkTag(parent_iters \o "iterable[empty]")
       ELSE IF is_parent_tuple /\ is_only_numbers_in_tuple
       THEN OkTag(IterPrefix(Len(parents) - 1) \o "tuple[number,size="
                  \o ToString(Len(last.items)) \o "]")
       ELSE IF nonempty.t = "None"
       THEN OkTag("None")
       ELSE IF is_np_array(nonempty)
       THEN OkTag(parent_iters \o "array["
                  \o kind_map(DtypeKind(nonempty.dtype)) \o "]")
       ELSE OkTag(parent_iters \o nonempty.cls)

estimate_normalization_type(inputs) ==
  LET f == find_first_nonempty(inputs, <<>>)
  IN _nonempty_info_to_type_str(f.nonempty, f.success, f.parents)


_assert_is_of_norm_type(type_str, valid_type_strs, arg_name) ==
  IF type_str \in Range(valid_type_strs)
  THEN OkTag(type_str)
  ELSE Outcome("AssertionError", "unknown_datatype", NoneV, type_str, "", 0,
               0, arg_name, valid_type_strs)

\* the heatmap whitelist with the nested-empty tag of the keypoint whitelist
heatmaps_valid_type_strs_nested ==
  << "None", "array[float]", "HeatmapsOnImage", "iterable[empty]",
     "iterable-array[float]", "iterable-HeatmapsOnImage",
     "iterable-iterable[empty]" >>

heatmaps_valid_type_strs ==
  << "None", "array[float]", "HeatmapsOnImage", "iterable[empty]",
     "iterable-array[float]", "iterable-HeatmapsOnImage" >>

segmaps_valid_type_strs ==
  << "None", "array[int]", "array[uint]", "array[bool]",
     "SegmentationMapOnImage", "iterable[empty]", "iterable-array[int]",
     "iterable-array[uint]", "iterable-array[bool]",
     "iterable-SegmentationMapOnImage" >>

\* the keypoint whitelist with a tag that normalize_keypoints has no branch for
keypoints_valid_type_strs_deeper ==
  << "None", "array[float]", "array[int]", "array[uint]",
     "tuple[number,size=2]", "Keypoint", "KeypointsOnImage",
     "iterable[empty]", "iterable-array[float]", "iterable-array[int]",
     "iterable-array[uint]", "iterable-tuple[number,size=2]",
     "iterable-Keypoint", "iterable-KeypointsOnImage",
     "iterable-iterable[empty]", "iterable-iterable-tuple[number,size=2]",
     "iterable-iterable-Keypoint",
     "iterable-iterable-iterable-tuple[number,size=2]" >>

keypoints_valid_type_strs ==
  << "None", "array[float]", "array[int]", "array[uint]",
     "tuple[number,size=2]", "Keypoint", "KeypointsOnImage",
     "iterable[empty]", "iterable-array[float]", "iterable-array[int]",
     "iterable-array[uint]", "iterable-tuple[number,size=2]",
     "iterable-Keypoint", "iterable-KeypointsOnImage",
     "iterable-iterable[empty]", "iterable-iterable-tuple[number,size=2]",
     "iterable-iterable-Keypoint" >>

\* the bounding box whitelist without the batch array tags
bounding_boxes_valid_type_strs_no_arrays ==
  << "None", "tuple[number,size=4]", "BoundingBox", "BoundingBoxesOnImage",
     "iterable[empty]", "iterable-array[float]", "iterable-array[int]",
     "iterable-array[uint]", "iterable-tuple[number,size=4]",
     "iterable-BoundingBox", "iterable-BoundingBoxesOnImage",
     "iterable-iterable[empty]", "iterable-iterable-tuple[number,size=4]",
     "iterable-iterable-BoundingBox" >>

bounding_boxes_valid_type_strs ==
  << "None", "array[float]", "array[int]", "array[uint]",
     "tuple[number,size=4]", "BoundingBox", "BoundingBoxesOnImage",
     "iterable[empty]", "iterable-array[float]", "iterable-array[int]",
     "iterable-array[uint]", "iterable-tuple[number,size=4]",
     "iterable-BoundingBox", "iterable-BoundingBoxesOnImage",
     "iterable-iterable[empty]", "iterable-iterable-tuple[number,size=4]",
     "iterable-iterable-BoundingBox" >>

polygons_valid_type_strs ==
  << "None", "array[float]", "array[int]", "array[uint]", "Polygon",
     "PolygonsOnImage", "iterable[empty]", "iterable-array[float]",
     "iterable-array[int]", "iterable-array[uint]",
     "iterable-tuple[number,size=2]", "iterable-Keypoint",
     "iterable-Polygon", "iterable-PolygonsOnImage",
     "iterable-iterable[empty]", "iterable-iterable-array[float]",
     "iterable-iterable-array[int]", "iterable-iterable-array[uint]",
     "iterable-iterable-tuple[number,size=2]", "iterable-iterable-Keypoint",
     "iterable-iterable-Polygon", "iterable-iterable-iterable[empty]",
     "iterable-iterable-iterable-tuple[number,size=2]",
     "iterable-iterable-iterable-Keypoint" >>

\* estimate_normalization_type followed by the whitelist assertion
estimate_norm_type_checked(inputs, valid_type_strs, arg_name) ==
  LET t == estimate_normalization_type(inputs)
  IN IF Failed(t) THEN t
     ELSE _assert_is_of_norm_type(t.tag, valid_type_strs, arg_name)

estimate_heatmaps_norm_type(heatmaps) ==
  estimate_norm_type_checked(heatmaps, heatmaps_valid_type_strs, "heatmaps")

estimate_segmaps_norm_type(segmentation_maps) ==
  estimate_norm_type_checked(segmentation_maps, segmaps_valid_type_strs,
                             "segmentation_maps")

estimate_keypoints_norm_type(keypoints) ==
  estimate_norm_type_checked(keypoints, keypoints_valid_type_strs,
                             "keypoints")

estimate_bounding_boxes_norm_type(bounding_boxes) ==
  estimate_norm_type_checked(bounding_boxes, bounding_boxes_valid_type_strs,
                             "bounding_boxes")

estimate_polygons_norm_type(polygons) ==
  estimate_norm_type_checked(polygons, polygons_valid_type_strs, "polygons")

\* ------------------------------------------------------------------ shapes
\* an image shape as the Python tuple (height, width, channels)
ShapeTuple(dims) == Tuple([i \in 1..Len(dims) |-> Num(dims[i])])
\* the numbers of a tuple of numbers
Dims(tpl) == [i \in 1..Len(tpl.items) |-> tpl.items[i].data[1]]

RECURSIVE preprocess_shape_list(_, _, _)
preprocess_shape_list(shapes, i, result) ==
  IF i > Len(shapes.items)
  THEN Ok(List(result))
  ELSE LET shape_i == shapes.items[i]
       IN IF isinstance_tuple(shape_i)
          THEN preprocess_shape_list(shapes, i + 1, Append(result, shape_i))
          ELSE IF ~is_np_array(shape_i)
          THEN Raise("AssertionError", "assert")
          ELSE preprocess_shape_list(
                 shapes, i + 1, Append(result, ShapeTuple(shape_i.shape)))

\* _preprocess_shapes that gives every image of a batch the shape of the batch
_preprocess_shapes_batch(shapes) ==
  IF shapes.t = "None"
  THEN Ok(NoneV)
  ELSE IF is_np_array(shapes)
  THEN IF Len(shapes.shape) \notin {3, 4}
       THEN Raise("AssertionError", "assert")
       ELSE Ok(List([i \in 1..len(shapes) |-> ShapeTuple(shapes.shape)]))
  ELSE IF ~isinstance_list(shapes)
  THEN Raise("AssertionError", "assert")
  ELSE preprocess_shape_list(shapes, 1, <<>>)
_preprocess_shapes(shapes) ==
  IF shapes.t = "None"
  THEN Ok(NoneV)
  ELSE IF is_np_array(shapes)
  THEN IF Len(shapes.shape) \notin {3, 4}
       THEN Raise("AssertionError", "assert")
       ELSE Ok(List([i \in 1..len(shapes) |->
                       ShapeTuple(Index(shapes, i).shape)]))
  ELSE IF ~isinstance_list(shapes)
  THEN Raise("AssertionError", "assert")
  ELSE preprocess_shape_list(shapes, 1, <<>>)

\* _assert_exactly_n_shapes that only refuses too few shapes
_assert_exactly_n_shapes_fewer(shapes, n, from_ntype, to_ntype) ==
  IF shapes.t = "None"
  THEN Outcome("ValueError", "shape_count", NoneV, from_ntype, to_ntype, n,
               0 - 1, "shapes", <<>>)
  ELSE IF len(shapes) < n
  THEN Outcome("ValueError", "shape_count", NoneV, from_ntype, to_ntype, n,
               len(shapes), "shapes", <<>>)
  ELSE Ok(NoneV)

\* actual = -1 stands for the message of the first raise, which reports that
\* 'shapes' was set to None instead of a number of shapes
_assert_exactly_n_shapes(shapes, n, from_ntype, to_ntype) ==
  IF shapes.t = "None"
  THEN Outcome("ValueError", "shape_count", NoneV, from_ntype, to_ntype, n,
               0 - 1, "shapes", <<>>)
  ELSE IF len(shapes) # n
  THEN Outcome("ValueError", "shape_count", NoneV, from_ntype, to_ntype, n,
               len(shapes), "shapes", <<>>)
  ELSE Ok(NoneV)


\* ----------------------------------------------- numpy and container types
\* a numpy scalar taken out of an array of the given dtype
Scalar(dtype, v) == V("num", dtype, dtype, <<>>, <<v>>, <<>>)
ValueOf(num) == num.data[1]

\* ndarray.astype(dtype)
AsType(arr, dtype) ==
  Arr(dtype, arr.shape, [i \in 1..Len(arr.data) |-> CastTo(dtype, arr.data[i])])

\* np.array(rows, dtype=np.float32) for a sequence of tuples of numbers
ArrayFromRows(rows, width) ==
  Arr("float32", <<len(rows), width>>,
      Flatten([i \in 1..len(rows) |->
                 [j \in 1..width |->
                    ToFloat32(ValueOf(Index(rows, i).items[j]))]]))

\* np.array(arrs) for a sequence of arrays of one shape: a new leading axis
Stack(arrs) ==
  Arr(arrs[1].dtype, <<Len(arrs)>> \o arrs[1].shape,
      Flatten([i \in 1..Len(arrs) |-> arrs[i].data]))

MaxOf(a, b) == IF a >= b THEN a ELSE b
RECURSIVE np_max(_)
np_max(data) ==
  IF Len(data) = 1 THEN data[1] ELSE MaxOf(Head(data), np_max(Tail(data)))

\* HeatmapsOnImage(arr, shape=shape) and its attribute arr_0to1
HeatmapsOnImage(arr, shape) ==
  Obj("HeatmapsOnImage", Dims(shape), <<>>, <<AsType(arr, "float32")>>)
arr_0to1(hm) == hm.items[1]

\* SegmentationMapOnImage(arr, shape=shape, nb_classes=nb) and get_arr_int();
\* nb_classes is <<nb>>, or <<>> when the argument is left out
SegmentationMapOnImage(arr, shape, nb_classes) ==
  Obj("SegmentationMapOnImage", Dims(shape), nb_classes, <<arr>>)
get_arr_int(segmap) == AsType(segmap.items[1], "int32")

\* Keypoint(x=x, y=y), KeypointsOnImage(keypoints, shape=shape)
Keypoint(x, y) == Obj("Keypoint", <<>>, <<>>, <<x, y>>)
KeypointsOnImage(keypoints, shape) ==
  Obj("KeypointsOnImage", Dims(shape), <<>>, <<keypoints>>)
keypoints_of(kpsoi) == kpsoi.items[1]
from_coords_array(coords, shape) ==
  KeypointsOnImage(
    List([i \in 1..len(coords) |->
            Keypoint(Scalar(coords.dtype, Index(coords, i).data[1]),
                     Scalar(coords.dtype, Index(coords, i).data[2]))]),
    shape)
get_coords_array(kpsoi) ==
  ArrayFromRows(keypoints_of(kpsoi), 2)

\* BoundingBox(x1=, y1=, x2=, y2=), BoundingBoxesOnImage(bbs, shape=shape)
BoundingBox(x1, y1, x2, y2) == Obj("BoundingBox", <<>>, <<>>, <<x1, y1, x2, y2>>)
BoundingBoxesOnImage(bounding_boxes, shape) ==
  Obj("BoundingBoxesOnImage", Dims(shape), <<>>, <<bounding_boxes>>)
bounding_boxes_of(bbsoi) == bbsoi.items[1]
from_xyxy_array(xyxy, shape) ==
  BoundingBoxesOnImage(
    List([i \in 1..len(xyxy) |->
            LET row == Index(xyxy, i)
            IN BoundingBox(Scalar(xyxy.dtype, row.data[1]),
                           Scalar(xyxy.dtype, row.data[2]),
                           Scalar(xyxy.dtype, row.data[3]),
                           Scalar(xyxy.dtype, row.data[4]))]),
    shape)
to_xyxy_array(bbsoi) == ArrayFromRows(bounding_boxes_of(bbsoi), 4)

\* the (x, y) of one point of an exterior given as array row, tuple or Keypoint
PointXY(p) ==
  IF is_np_array(p)
  THEN <<ToFloat32(p.data[1]), ToFloat32(p.data[2])>>
  ELSE <<ToFloat32(ValueOf(p.items[1])), ToFloat32(ValueOf(p.items[2]))>>

\* Polygon(exterior): the exterior is held as a float32 array of shape (P, 2)
Polygon(exterior) ==
  Obj("Polygon", <<>>, <<>>,
      <<Arr("float32", <<len(exterior), 2>>,
            Flatten([i \in 1..len(exterior) |-> PointXY(Index(exterior, i))]))>>)
exterior_of(poly) == poly.items[1]
PolygonsOnImage(polygons, shape) ==
  Obj("PolygonsOnImage", Dims(shape), <<>>, <<polygons>>)
polygons_of(psoi) == psoi.items[1]

\* --------------------------------------------------------- forward helpers
Require(cond) == IF cond THEN Ok(NoneV) ELSE Raise("AssertionError", "assert")

\* o; rest  -- rest runs only when o did not raise
Then(o, rest) == IF Failed(o) THEN o ELSE rest

\* the outcome of a normalizer that classified its input as ntype
WithTag(o, ntype) == [o EXCEPT !.tag = ntype]

\* len(inputs), which raises for an array without axes
LenChecked(inputs) ==
  IF HasLen(inputs) THEN Ok(NoneV) ELSE Raise("TypeError", "len_of_unsized")

\* all([P(attr_i) for attr_i in inputs]) where P reads array attributes
AllArrays(inputs, P(_)) ==
  IF \E i \in 1..len(inputs) : ~is_np_array(Index(inputs, i))
  THEN Raise("AttributeError", "no_ndim")
  ELSE Require(\A i \in 1..len(inputs) : P(Index(inputs, i)))

\* [F(attr_i, shape_i) for attr_i, shape_i in zip(inputs, shapes)]
MinOf(a, b) == IF a <= b THEN a ELSE b
ZipMap(inputs, shapes, F(_, _)) ==
  List([i \in 1..MinOf(len(inputs), len(shapes)) |->
          F(Index(inputs, i), shapes.items[i])])

\* [F(x) for x in xs]
Map(xs, F(_)) == List([i \in 1..len(xs) |-> F(Index(xs, i))])


\* ------------------------------------------------------ forward normalizers
\* the assertion on ntype in the last else branch of a normalizer
RequireLast(cond) ==
  IF cond THEN Ok(NoneV) ELSE Raise("AssertionError", "else_branch")

normalize_heatmaps(inputs, shapes_arg) ==
  LET ps == _preprocess_shapes(shapes_arg)
      shapes == ps.val
      nt == estimate_heatmaps_norm_type(inputs)
      ntype == nt.tag
      n_shapes(n) ==
        _assert_exactly_n_shapes(shapes, n, ntype, "List[HeatmapsOnImage]")
      branch ==
        CASE ntype = "None" -> Ok(NoneV)
          [] ntype = "array[float]" ->
               Then(LenChecked(inputs),
               Then(n_shapes(len(inputs)),
               Then(Require(Len(inputs.shape) = 4),
                    Ok(ZipMap(inputs, shapes, HeatmapsOnImage)))))
          [] ntype = "HeatmapsOnImage" -> Ok(List(<<inputs>>))
          [] ntype = "iterable[empty]" -> Ok(NoneV)
          [] ntype = "iterable-array[float]" ->
               Then(n_shapes(len(inputs)),
               Then(AllArrays(inputs, LAMBDA a : Len(a.shape) = 3),
                    Ok(ZipMap(inputs, shapes, HeatmapsOnImage))))
          [] OTHER ->
               Then(RequireLast(ntype = "iterable-HeatmapsOnImage"),
                    Ok(inputs))
  IN Then(ps, Then(nt, WithTag(branch, ntype)))

normalize_segmentation_maps(inputs, shapes_arg) ==
  LET ps == _preprocess_shapes(shapes_arg)
      shapes == ps.val
      nt == estimate_segmaps_norm_type(inputs)
      ntype == nt.tag
      n_shapes(n) ==
        _assert_exactly_n_shapes(shapes, n, ntype,
                                 "List[SegmentationMapOnImage]")
      plain(attr_i, shape) == SegmentationMapOnImage(attr_i, shape, <<>>)
      with_classes(attr_i, shape) ==
        SegmentationMapOnImage(attr_i, shape, <<1 + np_max(attr_i.data)>>)
      branch ==
        CASE ntype = "None" -> Ok(NoneV)
          [] ntype \in {"array[int]", "array[uint]", "array[bool]"} ->
               Then(LenChecked(inputs),
               Then(n_shapes(len(inputs)),
               Then(Require(Len(inputs.shape) = 3),
                    IF ntype = "array[bool]"
                    THEN Ok(ZipMap(inputs, shapes, plain))
                    ELSE Ok(ZipMap(inputs, shapes, with_classes)))))
          [] ntype = "SegmentationMapOnImage" -> Ok(List(<<inputs>>))
          [] ntype = "iterable[empty]" -> Ok(NoneV)
          [] ntype \in {"iterable-array[int]", "iterable-array[uint]",
                        "iterable-array[bool]"} ->
               Then(n_shapes(len(inputs)),
               Then(AllArrays(inputs, LAMBDA a : Len(a.shape) = 2),
                    IF ntype = "iterable-array[bool]"
                    THEN Ok(ZipMap(inputs, shapes, plain))
                    ELSE Ok(ZipMap(inputs, shapes, with_classes))))
          [] OTHER ->
               Then(RequireLast(ntype = "iterable-SegmentationMapOnImage"),
                    Ok(inputs))
  IN Then(ps, Then(nt, WithTag(branch, ntype)))

normalize_keypoints(inputs, shapes_arg) ==
  LET ps == _preprocess_shapes(shapes_arg)
      shapes == ps.val
      nt == estimate_keypoints_norm_type(inputs)
      ntype == nt.tag
      n_shapes(n) ==
        _assert_exactly_n_shapes(shapes, n, ntype, "List[KeypointsOnImage]")
      branch ==
        CASE ntype = "None" -> Ok(inputs)
          [] ntype \in {"array[float]", "array[int]", "array[uint]"} ->
               Then(LenChecked(inputs),
               Then(n_shapes(len(inputs)),
               Then(Require(Len(inputs.shape) = 3),
               Then(Require(inputs.shape[3] = 2),
                    Ok(ZipMap(inputs, shapes, from_coords_array))))))
          [] ntype = "tuple[number,size=2]" ->
               Then(n_shapes(1),
                    Ok(List(<<KeypointsOnImage(
                                List(<<Keypoint(Index(inputs, 1),
                                                Index(inputs, 2))>>),
                                shapes.items[1])>>)))
          [] ntype = "Keypoint" ->
               Then(n_shapes(1),
                    Ok(List(<<KeypointsOnImage(List(<<inputs>>),
                                               shapes.items[1])>>)))
          [] ntype = "KeypointsOnImage" -> Ok(List(<<inputs>>))
          [] ntype = "iterable[empty]" -> Ok(NoneV)
          [] ntype \in {"iterable-array[float]", "iterable-array[int]",
                        "iterable-array[uint]"} ->
               Then(n_shapes(len(inputs)),
               Then(AllArrays(inputs, LAMBDA a : Len(a.shape) = 2),
               Then(AllArrays(inputs, LAMBDA a : a.shape[2] = 2),
                    Ok(ZipMap(inputs, shapes, from_coords_array)))))
          [] ntype = "iterable-tuple[number,size=2]" ->
               Then(n_shapes(1),
                    Ok(List(<<KeypointsOnImage(
                                Map(inputs,
                                    LAMBDA xy : Keypoint(Index(xy, 1),
                                                         Index(xy, 2))),
                                shapes.items[1])>>)))
          [] ntype = "iterable-Keypoint" ->
               Then(n_shapes(1),
                    Ok(List(<<KeypointsOnImage(inputs, shapes.items[1])>>)))
          [] ntype = "iterable-KeypointsOnImage" -> Ok(inputs)
          [] ntype = "iterable-iterable[empty]" -> Ok(NoneV)
          [] ntype = "iterable-iterable-tuple[number,size=2]" ->
               Then(n_shapes(len(inputs)),
                    Ok(ZipMap(inputs, shapes,
                              LAMBDA attr_i, shape :
                                from_coords_array(ArrayFromRows(attr_i, 2),
                                                  shape))))
          [] OTHER ->
               Then(RequireLast(ntype = "iterable-iterable-Keypoint"),
               Then(n_shapes(len(inputs)),
                    Ok(ZipMap(inputs, shapes, KeypointsOnImage))))
  IN Then(ps, Then(nt, WithTag(branch, ntype)))

\* bb_of with y1 and x2 taken from each other's position
bb_of_swapped(t) ==
  BoundingBox(Index(t, 1), Index(t, 3), Index(t, 2), Index(t, 4))

\* BoundingBox(x1=t[0], y1=t[1], x2=t[2], y2=t[3])
bb_of(t) == BoundingBox(Index(t, 1), Index(t, 2), Index(t, 3), Index(t, 4))

normalize_bounding_boxes(inputs, shapes_arg) ==
  LET ps == _preprocess_shapes(shapes_arg)
      shapes == ps.val
      nt == estimate_bounding_boxes_norm_type(inputs)
      ntype == nt.tag
      shapes_given == Require(shapes.t # "None")
      one_shape == Then(shapes_given, Require(len(shapes) = 1))
      branch ==
        CASE ntype = "None" -> Ok(NoneV)
          [] ntype \in {"array[float]", "array[int]", "array[uint]"} ->
               Then(shapes_given,
               Then(Require(Len(inputs.shape) = 3),
               Then(Require(inputs.shape[3] = 4),
               Then(Require(len(inputs) = len(shapes)),
                    Ok(ZipMap(inputs, shapes, from_xyxy_array))))))
          [] ntype = "tuple[number,size=4]" ->
               Then(one_shape,
                    Ok(List(<<BoundingBoxesOnImage(List(<<bb_of(inputs)>>),
                                                   shapes.items[1])>>)))
          [] ntype = "BoundingBox" ->
               Then(one_shape,
                    Ok(List(<<BoundingBoxesOnImage(List(<<inputs>>),
                                                   shapes.items[1])>>)))
          [] ntype = "BoundingBoxesOnImage" -> Ok(List(<<inputs>>))
          [] ntype = "iterable[empty]" -> Ok(NoneV)
          [] ntype \in {"iterable-array[float]", "iterable-array[int]",
                        "iterable-array[uint]"} ->
               Then(shapes_given,
               Then(AllArrays(inputs, LAMBDA a : Len(a.shape) = 2),
               Then(AllArrays(inputs, LAMBDA a : a.shape[2] = 4),
               Then(Require(len(inputs) = len(shapes)),
                    Ok(ZipMap(inputs, shapes, from_xyxy_array))))))
          [] ntype = "iterable-tuple[number,size=4]" ->
               Then(one_shape,
                    Ok(List(<<BoundingBoxesOnImage(Map(inputs, bb_of),
                                                   shapes.items[1])>>)))
          [] ntype = "iterable-BoundingBox" ->
               Then(one_shape,
                    Ok(List(<<BoundingBoxesOnImage(inputs,
                                                   shapes.items[1])>>)))
          [] ntype = "iterable-BoundingBoxesOnImage" -> Ok(inputs)
          [] ntype = "iterable-iterable[empty]" -> Ok(NoneV)
          [] ntype = "iterable-iterable-tuple[number,size=4]" ->
               Then(shapes_given,
               Then(Require(len(inputs) = len(shapes)),
                    Ok(ZipMap(inputs, shapes,
                              LAMBDA attr_i, shape :
                                from_xyxy_array(ArrayFromRows(attr_i, 4),
                                                shape)))))
          [] OTHER ->
               Then(RequireLast(ntype = "iterable-iterable-BoundingBox"),
               Then(shapes_given,
               Then(Require(len(inputs) = len(shapes)),
                    Ok(ZipMap(inputs, shapes, BoundingBoxesOnImage)))))
  IN Then(ps, Then(nt, WithTag(branch, ntype)))

normalize_polygons(inputs, shapes_arg) ==
  LET ps == _preprocess_shapes(shapes_arg)
      shapes == ps.val
      nt == estimate_polygons_norm_type(inputs)
      ntype == nt.tag
      shapes_given == Require(shapes.t # "None")
      one_shape == Then(shapes_given, Require(len(shapes) = 1))
      n_shapes == Then(shapes_given, Require(len(inputs) = len(shapes)))
      \* PolygonsOnImage([Polygon(poly_points) for poly_points in attr_i], ..)
      polys_on_image(attr_i, shape) ==
        PolygonsOnImage(Map(attr_i, Polygon), shape)
      branch ==
        CASE ntype = "None" -> Ok(NoneV)
          [] ntype \in {"array[float]", "array[int]", "array[uint]"} ->
               Then(shapes_given,
               Then(Require(Len(inputs.shape) = 4),
               Then(Require(inputs.shape[4] = 2),
               Then(Require(len(inputs) = len(shapes)),
                    Ok(ZipMap(inputs, shapes, polys_on_image))))))
          [] ntype = "Polygon" ->
               Then(one_shape,
                    Ok(List(<<PolygonsOnImage(List(<<inputs>>),
                                              shapes.items[1])>>)))
          [] ntype = "PolygonsOnImage" -> Ok(List(<<inputs>>))
          [] ntype = "iterable[empty]" -> Ok(NoneV)
          [] ntype \in {"iterable-array[float]", "iterable-array[int]",
                        "iterable-array[uint]"} ->
               Then(shapes_given,
               Then(AllArrays(inputs, LAMBDA a : Len(a.shape) = 3),
               Then(AllArrays(inputs, LAMBDA a : a.shape[3] = 2),
               Then(Require(len(inputs) = len(shapes)),
                    Ok(ZipMap(inputs, shapes, polys_on_image))))))
          [] ntype \in {"iterable-tuple[number,size=2]",
                        "iterable-Keypoint"} ->
               Then(one_shape,
                    Ok(List(<<PolygonsOnImage(List(<<Polygon(inputs)>>),
                                              shapes.items[1])>>)))
          [] ntype = "iterable-Polygon" ->
               Then(one_shape,
                    Ok(List(<<PolygonsOnImage(inputs, shapes.items[1])>>)))
          [] ntype = "iterable-PolygonsOnImage" -> Ok(inputs)
          [] ntype = "iterable-iterable[empty]" -> Ok(NoneV)
          [] ntype \in {"iterable-iterable-array[float]",
                        "iterable-iterable-array[int]",
                        "iterable-iterable-array[uint]"} ->
               Then(n_shapes,
               Then(Require(\A i \in 1..len(inputs) :
                              \A j \in 1..len(Index(inputs, i)) :
                                LET poly_points == Index(Index(inputs, i), j)
                                IN /\ Len(poly_points.shape) = 2
                                   /\ poly_points.shape[2] = 2),
                    Ok(ZipMap(inputs, shapes, polys_on_image))))
          [] ntype \in {"iterable-iterable-tuple[number,size=2]",
                        "iterable-iterable-Keypoint"} ->
               Then(one_shape,
                    Ok(List(<<PolygonsOnImage(Map(inputs, Polygon),
                                              shapes.items[1])>>)))
          [] ntype = "iterable-iterable-Polygon" ->
               Then(n_shapes,
                    Ok(ZipMap(inputs, shapes, PolygonsOnImage)))
          [] ntype = "iterable-iterable-iterable[empty]" -> Ok(NoneV)
          [] OTHER ->
               Then(RequireLast(
                      ntype \in
                        {"iterable-iterable-iterable-tuple[number,size=2]",
                         "iterable-iterable-iterable-Keypoint"}),
               Then(n_shapes,
                    Ok(ZipMap(inputs, shapes, polys_on_image))))
  IN Then(ps, Then(nt, WithTag(branch, ntype)))


\* ------------------------------------------------------- dtype restoration
\* iadt.restore_dtypes_(arr, input_dtype): the array cast to input_dtype
restore_dtypes_(arr, input_dtype) == AsType(arr, input_dtype)

\* the first outcome of a sequence of outcomes that raised
FirstFailed(rs) == rs[CHOOSE i \in 1..Len(rs) :
                        /\ Failed(rs[i])
                        /\ \A j \in 1..(i - 1) : ~Failed(rs[j])]

\* restore_dtype_and_merge that merges but leaves the dtype as it is
RECURSIVE restore_dtype_and_merge_nocast(_, _)
restore_dtype_and_merge_nocast(arr, input_dtype) ==
  IF isinstance_list(arr)
  THEN LET rs == [i \in 1..Len(arr.items) |->
                    restore_dtype_and_merge_nocast(arr.items[i], input_dtype)]
           vals == [i \in 1..Len(rs) |-> rs[i].val]
           shapes == {vals[i].shape : i \in 1..Len(vals)}
       IN IF \E i \in 1..Len(rs) : Failed(rs[i])
          THEN FirstFailed(rs)
          ELSE IF \E i \in 1..Len(vals) : ~is_np_array(vals[i])
          THEN Raise("AttributeError", "no_shape")
          ELSE IF Cardinality(shapes) = 1
          THEN Ok(Stack(vals))
          ELSE Ok(List(vals))
  ELSE Ok(arr)

RECURSIVE restore_dtype_and_merge(_, _)
restore_dtype_and_merge(arr, input_dtype) ==
  IF isinstance_list(arr)
  THEN LET rs == [i \in 1..Len(arr.items) |->
                    restore_dtype_and_merge(arr.items[i], input_dtype)]
           vals == [i \in 1..Len(rs) |-> rs[i].val]
           shapes == {vals[i].shape : i \in 1..Len(vals)}
       IN IF \E i \in 1..Len(rs) : Failed(rs[i])
          THEN FirstFailed(rs)
          ELSE IF \E i \in 1..Len(vals) : ~is_np_array(vals[i])
          THEN Raise("AttributeError", "no_shape")
          ELSE IF Cardinality(shapes) = 1
          THEN Ok(restore_dtypes_(Stack(vals), input_dtype))
          ELSE Ok(List(vals))
  ELSE IF is_np_array(arr)
  THEN Ok(restore_dtypes_(arr, input_dtype))
  ELSE Ok(arr)

\* [restore_dtype_and_merge(F(x), input_dtype) for x in xs]
RestoreEach(xs, F(_), input_dtype) ==
  LET rs == [i \in 1..len(xs) |->
               restore_dtype_and_merge(F(Index(xs, i)), input_dtype)]
  IN IF \E i \in 1..Len(rs) : Failed(rs[i])
     THEN FirstFailed(rs)
     ELSE Ok(List([i \in 1..Len(rs) |-> rs[i].val]))

\* ------------------------------------------------------ inverse normalizers
\* 'for x in augmentables', which raises when augmentables is None
Iterable(augmentables) ==
  IF HasLen(augmentables) THEN Ok(NoneV)
  ELSE Raise("TypeError", "not_iterable")

\* old.shape[0], which raises for an array without axes
HasAxis0(old) ==
  IF Len(old.shape) > 0 THEN Ok(NoneV) ELSE Raise("IndexError", "no_axis")

\* assert len(augmentables) == n
RequireLen(augmentables, n) ==
  Then(LenChecked(augmentables), Require(len(augmentables) = n))

RequireNone(augmentables) == Require(augmentables.t = "None")

\* the inverse of a nested-empty input that returns [] as the inverse of an
\* empty input does
slice_copy_emptied(old) == List(<<>>)

\* old[:]: a sequence of the class of old holding the elements of old
slice_copy(old) ==
  V(old.t, old.cls, old.dtype, old.shape, old.data,
    [i \in 1..Len(old.items) |-> old.items[i]])

first_dtype(old) == find_first_nonempty(old, <<>>).nonempty.dtype

invert_normalize_heatmaps(heatmaps, heatmaps_old) ==
  LET nt == estimate_heatmaps_norm_type(heatmaps_old)
      ntype == nt.tag
      branch ==
        CASE ntype = "None" -> Then(RequireNone(heatmaps), Ok(heatmaps))
          [] ntype = "array[float]" ->
               Then(LenChecked(heatmaps),
               Then(HasAxis0(heatmaps_old),
               Then(Require(len(heatmaps) = heatmaps_old.shape[1]),
                    restore_dtype_and_merge(Map(heatmaps, arr_0to1),
                                            heatmaps_old.dtype))))
          [] ntype = "HeatmapsOnImage" ->
               Then(RequireLen(heatmaps, 1), Ok(Index(heatmaps, 1)))
          [] ntype = "iterable[empty]" ->
               Then(RequireNone(heatmaps), Ok(List(<<>>)))
          [] ntype = "iterable-array[float]" ->
               Then(Iterable(heatmaps),
                    RestoreEach(heatmaps, arr_0to1,
                                first_dtype(heatmaps_old)))
          [] OTHER ->
               Then(RequireLast(ntype = "iterable-HeatmapsOnImage"),
                    Ok(heatmaps))
  IN Then(nt, WithTag(branch, ntype))

invert_normalize_segmentation_maps(segmentation_maps, segmentation_maps_old) ==
  LET nt == estimate_segmaps_norm_type(segmentation_maps_old)
      ntype == nt.tag
      branch ==
        CASE ntype = "None" ->
               Then(RequireNone(segmentation_maps), Ok(segmentation_maps))
          [] ntype \in {"array[int]", "array[uint]", "array[bool]"} ->
               Then(LenChecked(segmentation_maps),
               Then(HasAxis0(segmentation_maps_old),
               Then(Require(len(segmentation_maps)
                              = segmentation_maps_old.shape[1]),
                    restore_dtype_and_merge(
                      Map(segmentation_maps, get_arr_int),
                      segmentation_maps_old.dtype))))
          [] ntype = "SegmentationMapOnImage" ->
               Then(RequireLen(segmentation_maps, 1),
                    Ok(Index(segmentation_maps, 1)))
          [] ntype = "iterable[empty]" ->
               Then(RequireNone(segmentation_maps), Ok(List(<<>>)))
          [] ntype \in {"iterable-array[int]", "iterable-array[uint]",
                        "iterable-array[bool]"} ->
               Then(Iterable(segmentation_maps),
                    RestoreEach(segmentation_maps, get_arr_int,
                                first_dtype(segmentation_maps_old)))
          [] OTHER ->
               Then(RequireLast(ntype = "iterable-SegmentationMapOnImage"),
                    Ok(segmentation_maps))
  IN Then(nt, WithTag(branch, ntype))

\* kp_tuple with the coordinates in the other order
kp_tuple_swapped(kp) == Tuple(<<kp.items[2], kp.items[1]>>)

\* (kp.x, kp.y)
kp_tuple(kp) == Tuple(<<kp.items[1], kp.items[2]>>)

\* the iterable-array branch that hands the whole list of coordinate arrays
\* to restore_dtype_and_merge, as the array branch does
invert_keypoint_arrays_merged(keypoints, keypoints_old) ==
  Then(Iterable(keypoints),
       restore_dtype_and_merge(Map(keypoints, get_coords_array),
                               first_dtype(keypoints_old)))

\* the iterable-array branch: one restored coordinate array per container
invert_keypoint_arrays(keypoints, keypoints_old) ==
  Then(Iterable(keypoints),
       RestoreEach(keypoints, get_coords_array, first_dtype(keypoints_old)))

invert_normalize_keypoints(keypoints, keypoints_old) ==
  LET nt == estimate_keypoints_norm_type(keypoints_old)
      ntype == nt.tag
      single == Then(RequireLen(keypoints, 1),
                     RequireLen(keypoints_of(Index(keypoints, 1)), 1))
      branch ==
        CASE ntype = "None" -> Then(RequireNone(keypoints), Ok(keypoints))
          [] ntype \in {"array[float]", "array[int]", "array[uint]"} ->
               Then(RequireLen(keypoints, 1),
                    restore_dtype_and_merge(Map(keypoints, get_coords_array),
                                            keypoints_old.dtype))
          [] ntype = "tuple[number,size=2]" ->
               Then(single,
                    Ok(kp_tuple(Index(keypoints_of(Index(keypoints, 1)), 1))))
          [] ntype = "Keypoint" ->
               Then(single,
                    Ok(Index(keypoints_of(Index(keypoints, 1)), 1)))
          [] ntype = "KeypointsOnImage" ->
               Then(RequireLen(keypoints, 1), Ok(Index(keypoints, 1)))
          [] ntype = "iterable[empty]" ->
               Then(RequireNone(keypoints), Ok(List(<<>>)))
          [] ntype \in {"iterable-array[float]", "iterable-array[int]",
                        "iterable-array[uint]"} ->
               invert_keypoint_arrays(keypoints, keypoints_old)
          [] ntype = "iterable-tuple[number,size=2]" ->
               Then(RequireLen(keypoints, 1),
                    Ok(Map(keypoints_of(Index(keypoints, 1)), kp_tuple)))
          [] ntype = "iterable-Keypoint" ->
               Then(RequireLen(keypoints, 1),
                    Ok(keypoints_of(Index(keypoints, 1))))
          [] ntype = "iterable-KeypointsOnImage" -> Ok(keypoints)
          [] ntype = "iterable-iterable[empty]" ->
               Then(RequireNone(keypoints), Ok(slice_copy(keypoints_old)))
          [] ntype = "iterable-iterable-tuple[number,size=2]" ->
               Then(Iterable(keypoints),
                    Ok(Map(keypoints,
                           LAMBDA kpsoi : Map(keypoints_of(kpsoi),
                                              kp_tuple))))
          [] OTHER ->
               Then(RequireLast(ntype = "iterable-iterable-Keypoint"),
               Then(Iterable(keypoints),
                    Ok(Map(keypoints,
                           LAMBDA kpsoi : Map(keypoints_of(kpsoi),
                                              LAMBDA kp : kp)))))
  IN Then(nt, WithTag(branch, ntype))

\* (bb.x1, bb.y1, bb.x2, bb.y2)
bb_tuple(bb) == Tuple(<<bb.items[1], bb.items[2], bb.items[3], bb.items[4]>>)

invert_normalize_bounding_boxes(bounding_boxes, bounding_boxes_old) ==
  LET nt == estimate_normalization_type(bounding_boxes_old)
      ntype == nt.tag
      single == Then(RequireLen(bounding_boxes, 1),
                     RequireLen(bounding_boxes_of(Index(bounding_boxes, 1)),
                                1))
      branch ==
        CASE ntype = "None" ->
               Then(RequireNone(bounding_boxes), Ok(bounding_boxes))
          [] ntype \in {"array[float]", "array[int]", "array[uint]"} ->
               Then(RequireLen(bounding_boxes, 1),
                    restore_dtype_and_merge(
                      Map(bounding_boxes, to_xyxy_array),
                      bounding_boxes_old.dtype))
          [] ntype = "tuple[number,size=4]" ->
               Then(single,
                    Ok(bb_tuple(
                         Index(bounding_boxes_of(Index(bounding_boxes, 1)),
                               1))))
          [] ntype = "BoundingBox" ->
               Then(single,
                    Ok(Index(bounding_boxes_of(Index(bounding_boxes, 1)),
                             1)))
          [] ntype = "BoundingBoxesOnImage" ->
               Then(RequireLen(bounding_boxes, 1),
                    Ok(Index(bounding_boxes, 1)))
          [] ntype = "iterable[empty]" ->
               Then(RequireNone(bounding_boxes), Ok(List(<<>>)))
          [] ntype \in {"iterable-array[float]", "iterable-array[int]",
                        "iterable-array[uint]"} ->
               Then(Iterable(bounding_boxes),
                    RestoreEach(bounding_boxes, to_xyxy_array,
                                first_dtype(bounding_boxes_old)))
          [] ntype = "iterable-tuple[number,size=4]" ->
               Then(RequireLen(bounding_boxes, 1),
                    Ok(Map(bounding_boxes_of(Index(bounding_boxes, 1)),
                           bb_tuple)))
          [] ntype = "iterable-BoundingBox" ->
               Then(RequireLen(bounding_boxes, 1),
                    Ok(bounding_boxes_of(Index(bounding_boxes, 1))))
          [] ntype = "iterable-BoundingBoxesOnImage" -> Ok(bounding_boxes)
          [] ntype = "iterable-iterable[empty]" ->
               Then(RequireNone(bounding_boxes), Ok(slice_copy(bounding_boxes_old)))
          [] ntype = "iterable-iterable-tuple[number,size=4]" ->
               Then(Iterable(bounding_boxes),
                    Ok(Map(bounding_boxes,
                           LAMBDA bbsoi : Map(bounding_boxes_of(bbsoi),
                                              bb_tuple))))
          [] OTHER ->
               Then(RequireLast(ntype = "iterable-iterable-BoundingBox"),
               Then(Iterable(bounding_boxes),
                    Ok(Map(bounding_boxes,
                           LAMBDA bbsoi : Map(bounding_boxes_of(bbsoi),
                                              LAMBDA bb : bb)))))
  IN Then(nt, WithTag(branch, ntype))

\* (point[0], point[1]) and Keypoint(x=point[0], y=point[1]) for a row of an
\* exterior
point_tuple(point) ==
  Tuple(<<Scalar(point.dtype, point.data[1]),
          Scalar(point.dtype, point.data[2])>>)
point_keypoint(point) ==
  Keypoint(Scalar(point.dtype, point.data[1]),
           Scalar(point.dtype, point.data[2]))
\* [poly.exterior for poly in psoi.polygons]
exteriors(psoi) == Map(polygons_of(psoi), exterior_of)

invert_normalize_polygons(polygons, polygons_old) ==
  LET nt == estimate_polygons_norm_type(polygons_old)
      ntype == nt.tag
      single == Then(RequireLen(polygons, 1),
                     RequireLen(polygons_of(Index(polygons, 1)), 1))
      first_exterior ==
        exterior_of(Index(polygons_of(Index(polygons, 1)), 1))
      per_image(F(_)) ==
        Map(polygons,
            LAMBDA psoi : Map(polygons_of(psoi),
                              LAMBDA polygon : Map(exterior_of(polygon), F)))
      branch ==
        CASE ntype = "None" -> Then(RequireNone(polygons), Ok(polygons))
          [] ntype \in {"array[float]", "array[int]", "array[uint]"} ->
               Then(Iterable(polygons),
                    restore_dtype_and_merge(Map(polygons, exteriors),
                                            polygons_old.dtype))
          [] ntype = "Polygon" ->
               Then(single, Ok(Index(polygons_of(Index(polygons, 1)), 1)))
          [] ntype = "PolygonsOnImage" ->
               Then(RequireLen(polygons, 1), Ok(Index(polygons, 1)))
          [] ntype = "iterable[empty]" ->
               Then(RequireNone(polygons), Ok(List(<<>>)))
          [] ntype \in {"iterable-array[float]", "iterable-array[int]",
                        "iterable-array[uint]"} ->
               Then(Iterable(polygons),
                    RestoreEach(polygons, exteriors,
                                first_dtype(polygons_old)))
          [] ntype = "iterable-tuple[number,size=2]" ->
               Then(single, Ok(Map(first_exterior, point_tuple)))
          [] ntype = "iterable-Keypoint" ->
               Then(single, Ok(Map(first_exterior, point_keypoint)))
          [] ntype = "iterable-Polygon" ->
               Then(RequireLen(polygons, 1),
               Then(Require(len(polygons_of(Index(polygons, 1)))
                              = len(polygons_old)),
                    Ok(polygons_of(Index(polygons, 1)))))
          [] ntype = "iterable-PolygonsOnImage" -> Ok(polygons)
          [] ntype = "iterable-iterable[empty]" ->
               Then(RequireNone(polygons), Ok(slice_copy(polygons_old)))
          [] ntype \in {"iterable-iterable-array[float]",
                        "iterable-iterable-array[int]",
                        "iterable-iterable-array[uint]"} ->
               Then(Iterable(polygons),
                    LET rs == [i \in 1..len(polygons) |->
                                 RestoreEach(polygons_of(Index(polygons, i)),
                                             exterior_of,
                                             first_dtype(polygons_old))]
                    IN IF \E i \in 1..Len(rs) : Failed(rs[i])
                       THEN FirstFailed(rs)
                       ELSE Ok(List([i \in 1..Len(rs) |-> rs[i].val])))
          [] ntype = "iterable-iterable-tuple[number,size=2]" ->
               Then(RequireLen(polygons, 1),
                    Ok(Map(polygons_of(Index(polygons, 1)),
                           LAMBDA polygon : Map(exterior_of(polygon),
                                                point_tuple))))
          [] ntype = "iterable-iterable-Keypoint" ->
               Then(RequireLen(polygons, 1),
                    Ok(Map(polygons_of(Index(polygons, 1)),
                           LAMBDA polygon : Map(exterior_of(polygon),
                                                point_keypoint))))
          [] ntype = "iterable-iterable-Polygon" ->
               Then(Iterable(polygons), Ok(Map(polygons, polygons_of)))
          [] ntype = "iterable-iterable-iterable[empty]" -> Ok(slice_copy(polygons_old))
          [] ntype = "iterable-iterable-iterable-tuple[number,size=2]" ->
               Then(Iterable(polygons), Ok(per_image(point_tuple)))
          [] OTHER ->
               Then(RequireLast(
                      ntype = "iterable-iterable-iterable-Keypoint"),
               Then(Iterable(polygons), Ok(per_image(point_keypoint))))
  IN Then(nt, WithTag(branch, ntype))


\* ------------------------------------------------------------------ inputs
\* the elements 1, 2, .. (0 and 1 alternating for bool) of an array
Iota(dtype, shape) ==
  Arr(dtype, shape,
      [i \in 1..Prod(shape) |-> IF dtype = "bool" THEN i % 2 ELSE i])

\* a coordinate that float32 cannot hold: 2^24 + 1
BigCoord == Pow2_24 + 1

ImageShape(i) == ShapeTuple(<<10 + i, 20 + i, 3>>)

ArrayLeaves ==
  {Iota(d, sh) : d \in {"float32", "int32", "uint8", "bool"},
                 sh \in {<<2, 1, 2>>, <<1, 2>>}}
  \cup {Iota("float32", sh) :
          sh \in {<<1, 1, 2>>, <<3, 1, 2>>, <<2, 1, 4>>, <<1, 1, 4>>,
                  <<2, 1, 1, 2>>, <<1, 4>>, <<>>}}
  \cup {Iota(d, <<2, 1, 3>>) : d \in {"float32", "int32", "bool"}}
  \cup {Iota("float64", <<1, 1, 2>>), Iota("float64", <<2, 1, 1, 2>>),
        Iota("complex64", <<1, 2>>)}

TupleLeaves ==
  {Tuple(<<Num(1), Num(2)>>), Tuple(<<Num(BigCoord), Num(2)>>),
   Tuple(<<Num(1), Num(2), Num(5)>>),
   Tuple(<<Num(1), Num(2), Num(5), Num(6)>>),
   Tuple(<<Num(1), Num(2), Num(BigCoord), Num(6)>>)}

Triangle == List(<<Tuple(<<Num(0), Num(0)>>), Tuple(<<Num(4), Num(0)>>),
                   Tuple(<<Num(4), Num(3)>>)>>)

ObjectLeaves ==
  {Keypoint(Num(1), Num(2)),
   BoundingBox(Num(1), Num(2), Num(5), Num(6)),
   Polygon(Triangle),
   KeypointsOnImage(List(<<Keypoint(Num(1), Num(2))>>), ImageShape(0)),
   BoundingBoxesOnImage(List(<<BoundingBox(Num(1), Num(2), Num(5), Num(6))>>),
                        ImageShape(0)),
   PolygonsOnImage(List(<<Polygon(Triangle)>>), ImageShape(0)),
   HeatmapsOnImage(Iota("float32", <<1, 1, 1>>), ImageShape(0)),
   SegmentationMapOnImage(Iota("int32", <<1, 1>>), ImageShape(0), <<2>>)}

\* lists of per-image arrays of coordinate rows, the images holding
\* different numbers of rows
RaggedLeaves ==
  {List(<<Iota(d, <<1, 2>>), Iota(d, <<2, 2>>)>>) :
     d \in {"float32", "int32", "uint8"}}
  \cup {List(<<Iota("float32", <<2, 2>>), Iota("float32", <<1, 2>>),
               Iota("float32", <<2, 2>>)>>)}

\* sequences that hold only empty sequences, at different depths
NestedEmptyLeaves ==
  {List(<<List(<<>>), List(<<List(<<>>)>>)>>),
   List(<<List(<<List(<<>>)>>), List(<<>>)>>),
   List(<<List(<<>>), List(<<List(<<>>)>>), List(<<>>)>>),
   List(<<List(<<List(<<>>)>>), List(<<List(<<>>), List(<<>>)>>)>>),
   Tuple(<<Tuple(<<>>), List(<<>>)>>)}

\* sequences whose first leaf comes after empty siblings
MixedLeaves ==
  {List(<<List(<<>>), List(<<Num(7)>>)>>),
   List(<<List(<<List(<<>>)>>), Num(7)>>),
   List(<<List(<<>>), List(<<Tuple(<<Num(1), Num(2), Num(5)>>)>>)>>)}

Leaves ==
  {NoneV, Num(7), Str, List(<<>>), Tuple(<<>>)} \cup NestedEmptyLeaves
  \cup MixedLeaves
  \cup TupleLeaves \cup ObjectLeaves \cup ArrayLeaves \cup RaggedLeaves

\* a second element for a list: the same kind of value at other coordinates
RECURSIVE Sibling(_)
Sibling(v) ==
  CASE v.t = "num" -> Num(ValueOf(v) + 2)
    [] v.t \in {"list", "tuple"} \/ (v.t = "obj" /\ v.cls \in {"Keypoint", "BoundingBox"}) ->
         [v EXCEPT !.items = [i \in 1..Len(v.items) |-> Sibling(v.items[i])]]
    [] OTHER -> v

Wrappers == {"list1", "list2"}
Chains == UNION {[1..n -> Wrappers] : n \in 0..MaxDepth}

\* the leaf inside the lists of the chain, innermost first
RECURSIVE Wrap(_, _)
Wrap(chain, v) ==
  IF Len(chain) = 0
  THEN v
  ELSE Wrap(Tail(chain),
            IF Head(chain) = "list1"
            THEN List(<<v>>)
            ELSE List(<<v, Sibling(v)>>))

Inputs == {Wrap(chain, leaf) : chain \in Chains, leaf \in Leaves}

\* the 'shapes' arguments: None, a list of image shapes, a batch of images
ShapesArgs ==
  {NoneV, Iota("uint8", <<2, 1, 1, 3>>)}
  \cup {List([i \in 1..k |-> ImageShape(i)]) : k \in 0..MaxShapes}

\* ----------------------------------------------------------- state machine
VARIABLES
  inputs,        \* the augmentable input handed to a normalizer
  shapes,        \* its 'shapes' argument
  pc,            \* "call", "normalized", "inverted"
  fn,            \* the domain whose normalizer was called
  augmentables,  \* the outcome of normalize_<fn>(inputs, shapes)
  restored,      \* the outcome of invert_normalize_<fn>(.., inputs)
  arr,           \* the arrays handed to restore_dtype_and_merge
  input_dtype,   \* the dtype it is to restore
  merged,        \* the outcome of restore_dtype_and_merge(arr, input_dtype)
  heap,          \* lists held by reference: the elements of each list
  found          \* the outcome of find_first_nonempty on the first list

vars == <<inputs, shapes, pc, fn, augmentables, restored, arr, input_dtype,
          merged, heap, found>>

Init ==
  /\ inputs \in Inputs
  /\ shapes \in ShapesArgs
  /\ pc = "call"
  /\ fn = ""
  /\ augmentables = Ok(NoneV)
  /\ restored = Ok(NoneV)
  /\ arr = NoneV
  /\ input_dtype = ""
  /\ merged = Ok(NoneV)
  /\ heap = <<>>
  /\ found = Ok(NoneV)

Normalize(domain, outcome) ==
  /\ pc = "call"
  /\ pc' = "normalized"
  /\ fn' = domain
  /\ augmentables' = outcome
  /\ UNCHANGED <<inputs, shapes, restored, arr, input_dtype, merged, heap,
                 found>>

NormalizeHeatmaps == Normalize("heatmaps", normalize_heatmaps(inputs, shapes))
NormalizeSegmentationMaps ==
  Normalize("segmentation_maps", normalize_segmentation_maps(inputs, shapes))
NormalizeKeypoints ==
  Normalize("keypoints", normalize_keypoints(inputs, shapes))
NormalizeBoundingBoxes ==
  Normalize("bounding_boxes", normalize_bounding_boxes(inputs, shapes))
NormalizePolygons == Normalize("polygons", normalize_polygons(inputs, shapes))

\* the inverse is called with what the normalizer returned (None when it
\* raised) and the original input
Invert(domain, outcome) ==
  /\ pc = "normalized"
  /\ fn = domain
  /\ pc' = "inverted"
  /\ restored' = outcome
  /\ UNCHANGED <<inputs, shapes, fn, augmentables, arr, input_dtype, merged,
                 heap, found>>

InvertNormalizeHeatmaps ==
  Invert("heatmaps", invert_normalize_heatmaps(augmentables.val, inputs))
InvertNormalizeSegmentationMaps ==
  Invert("segmentation_maps",
         invert_normalize_segmentation_maps(augmentables.val, inputs))
InvertNormalizeKeypoints ==
  Invert("keypoints", invert_normalize_keypoints(augmentables.val, inputs))
InvertNormalizeBoundingBoxes ==
  Invert("bounding_boxes",
         invert_normalize_bounding_boxes(augmentables.val, inputs))
InvertNormalizePolygons ==
  Invert("polygons", invert_normalize_polygons(augmentables.val, inputs))

Next ==
  \/ NormalizeHeatmaps
  \/ NormalizeSegmentationMaps
  \/ NormalizeKeypoints
  \/ NormalizeBoundingBoxes
  \/ NormalizePolygons
  \/ InvertNormalizeHeatmaps
  \/ InvertNormalizeSegmentationMaps
  \/ InvertNormalizeKeypoints
  \/ InvertNormalizeBoundingBoxes
  \/ InvertNormalizePolygons

Spec == Init /\ [][Next]_vars

\* ------------------------------------- an inverse handed a shortened list
\* what normalize_<domain>(inputs, shapes) gives
Forward(domain) ==
  CASE domain = "heatmaps" -> normalize_heatmaps(inputs, shapes)
    [] domain = "segmentation_maps" ->
         normalize_segmentation_maps(inputs, shapes)
    [] domain = "keypoints" -> normalize_keypoints(inputs, shapes)
    [] domain = "bounding_boxes" -> normalize_bounding_boxes(inputs, shapes)
    [] domain = "polygons" -> normalize_polygons(inputs, shapes)

\* the caller of an inverse normalizer takes the last container off the
\* canonical list before passing it on; it may do so more than once
DropContainer ==
  /\ pc = "normalized"
  /\ ~Failed(augmentables)
  /\ isinstance_list(augmentables.val)
  /\ len(augmentables.val) >= 1
  /\ augmentables' =
       [augmentables EXCEPT
          !.val = List(SubSeq(augmentables.val.items, 1,
                              len(augmentables.val) - 1))]
  /\ UNCHANGED <<inputs, shapes, pc, fn, restored, arr, input_dtype, merged,
                 heap, found>>

NextDrop == Next \/ DropContainer

SpecDrop == Init /\ [][NextDrop]_vars

\* --------------------------------------------- restore_dtype_and_merge alone
\* the canonical containers reach the inverse normalizers after augmentation,
\* which may change the number of points of a polygon or of an image: the
\* merge is called on lists of arrays, and on lists of lists of arrays, of
\* any shapes
\* the longest list at each level
MaxMembers == 2

\* exteriors of 1 and of 2 points
MergeArrays == {Iota("float32", <<1, 2>>), Iota("float32", <<2, 2>>)}
ListsOf(S, lo) == {List(xs) : xs \in UNION {[1..n -> S] : n \in lo..MaxMembers}}
MergeInputs ==
  MergeArrays \cup ListsOf(MergeArrays, 0) \cup ListsOf(ListsOf(MergeArrays, 1), 1)
MergeDtypes == {"float32", "int32", "uint8"}

InitMerge ==
  /\ arr \in MergeInputs
  /\ input_dtype \in MergeDtypes
  /\ merged = Ok(NoneV)
  /\ pc = "call"
  /\ inputs = NoneV
  /\ shapes = NoneV
  /\ fn = ""
  /\ augmentables = Ok(NoneV)
  /\ restored = Ok(NoneV)
  /\ heap = <<>>
  /\ found = Ok(NoneV)

RestoreDtypeAndMerge ==
  /\ pc = "call"
  /\ pc' = "merged"
  /\ merged' = restore_dtype_and_merge(arr, input_dtype)
  /\ UNCHANGED <<inputs, shapes, fn, augmentables, restored, arr, input_dtype,
                 heap, found>>

NextMerge == RestoreDtypeAndMerge

SpecMerge == InitMerge /\ [][NextMerge]_vars

\* ------------------------------------------ find_first_nonempty on references
\* Python lists are held by reference, so a list can hold itself.  heap[c] is
\* the sequence of the elements of list c, each element the number 7 (written
\* 0) or a reference to a list (its index in heap); the input is list 1.
\* the number of lists
MaxCells == 2
\* the depth of recursion the interpreter allows before RecursionError
MaxRecursion == 6

CellLengths == 0..2
Heaps ==
  [1..MaxCells -> UNION {[1..n -> 0..MaxCells] : n \in CellLengths}]

\* what a call on references produces: the triple returned, or the exception
FoundRef(nonempty, success, parents, exc) ==
  [nonempty |-> nonempty, success |-> success, parents |-> parents,
   exc |-> exc]

\* nonempty: 0 for the number, c for list c, -1 for None
RECURSIVE find_first_nonempty_ref(_, _, _, _)
RECURSIVE find_in_children_ref(_, _, _, _, _, _)
find_first_nonempty_ref(h, attr, parents, depth) ==
  IF depth > MaxRecursion
  THEN FoundRef(0 - 1, FALSE, parents, "RecursionError")
  ELSE IF attr = 0
  THEN FoundRef(attr, TRUE, parents, "")
  ELSE IF Len(h[attr]) = 0
  THEN FoundRef(0 - 1, FALSE, parents, "")
  ELSE IF h[attr][1] = attr
  THEN FoundRef(attr, TRUE, parents, "")
  ELSE find_in_children_ref(h, attr, parents, depth, 1,
                            FoundRef(0 - 1, FALSE, parents, ""))

\* the loop 'for attr_i in attr' from its i-th element on
find_in_children_ref(h, attr, parents, depth, i, deepest) ==
  IF i > Len(h[attr])
  THEN deepest
  ELSE LET r == find_first_nonempty_ref(h, h[attr][i],
                                        Append(parents, attr), depth + 1)
       IN IF r.exc # ""
          THEN r
          ELSE IF r.success
          THEN r
          ELSE IF Len(r.parents) > Len(deepest.parents)
          THEN find_in_children_ref(h, attr, parents, depth, i + 1, r)
          ELSE find_in_children_ref(h, attr, parents, depth, i + 1, deepest)

InitRef ==
  /\ heap \in Heaps
  /\ found = Ok(NoneV)
  /\ pc = "call"
  /\ inputs = NoneV
  /\ shapes = NoneV
  /\ fn = ""
  /\ augmentables = Ok(NoneV)
  /\ restored = Ok(NoneV)
  /\ arr = NoneV
  /\ input_dtype = ""
  /\ merged = Ok(NoneV)

FindFirstNonempty ==
  /\ pc = "call"
  /\ pc' = "found"
  /\ found' = find_first_nonempty_ref(heap, 1, <<>>, 1)
  /\ UNCHANGED <<inputs, shapes, fn, augmentables, restored, arr, input_dtype,
                 merged, heap>>

NextRef == FindFirstNonempty

SpecRef == InitRef /\ [][NextRef]_vars


\* ------------------------------------------------------------------ claims
Domains ==
  {"heatmaps", "segmentation_maps", "keypoints", "bounding_boxes", "polygons"}

Whitelist(domain) ==
  CASE domain = "heatmaps" -> heatmaps_valid_type_strs
    [] domain = "segmentation_maps" -> segmaps_valid_type_strs
    [] domain = "keypoints" -> keypoints_valid_type_strs
    [] domain = "bounding_boxes" -> bounding_boxes_valid_type_strs
    [] domain = "polygons" -> polygons_valid_type_strs

\* the outcome of estimate_<domain>_norm_type(inp)
Classify(domain, inp) ==
  CASE domain = "heatmaps" -> estimate_heatmaps_norm_type(inp)
    [] domain = "segmentation_maps" -> estimate_segmaps_norm_type(inp)
    [] domain = "keypoints" -> estimate_keypoints_norm_type(inp)
    [] domain = "bounding_boxes" -> estimate_bounding_boxes_norm_type(inp)
    [] domain = "polygons" -> estimate_polygons_norm_type(inp)

\* the tag of the current input, "" when the classifier gives none
InputTag == estimate_normalization_type(inputs).tag

\* the number of shapes passed, -1 when shapes is None
ShapeCount == IF shapes.t = "None" THEN 0 - 1 ELSE len(shapes)

ArrayTags == {"array[float]", "array[int]", "array[uint]"}
IterArrayTags ==
  {"iterable-array[float]", "iterable-array[int]", "iterable-array[uint]"}

\* the tags of a domain whose branch needs one shape per element of the input
PerElementTags(domain) ==
  CASE domain = "heatmaps" -> {"array[float]", "iterable-array[float]"}
    [] domain = "segmentation_maps" ->
         {"array[int]", "array[uint]", "array[bool]", "iterable-array[int]",
          "iterable-array[uint]", "iterable-array[bool]"}
    [] domain = "keypoints" ->
         ArrayTags \cup IterArrayTags
         \cup {"iterable-iterable-tuple[number,size=2]",
               "iterable-iterable-Keypoint"}
    [] domain = "bounding_boxes" ->
         ArrayTags \cup IterArrayTags
         \cup {"iterable-iterable-tuple[number,size=4]",
               "iterable-iterable-BoundingBox"}
    [] domain = "polygons" ->
         ArrayTags \cup IterArrayTags
         \cup {"iterable-iterable-array[float]",
               "iterable-iterable-array[int]",
               "iterable-iterable-array[uint]", "iterable-iterable-Polygon",
               "iterable-iterable-iterable-tuple[number,size=2]",
               "iterable-iterable-iterable-Keypoint"}

\* the tags of a domain whose branch needs exactly one shape
OneImageTags(domain) ==
  CASE domain = "keypoints" ->
         {"tuple[number,size=2]", "Keypoint", "iterable-tuple[number,size=2]",
          "iterable-Keypoint"}
    [] domain = "bounding_boxes" ->
         {"tuple[number,size=4]", "BoundingBox",
          "iterable-tuple[number,size=4]", "iterable-BoundingBox"}
    [] domain = "polygons" ->
         {"Polygon", "iterable-tuple[number,size=2]", "iterable-Keypoint",
          "iterable-Polygon", "iterable-iterable-tuple[number,size=2]",
          "iterable-iterable-Keypoint"}
    [] OTHER -> {}

\* the input reaches a branch that needs shapes, and how many it needs
NeedsShapes(domain) ==
  \/ InputTag \in OneImageTags(domain)
  \/ InputTag \in PerElementTags(domain) /\ HasLen(inputs)
RequiredShapes(domain) ==
  IF InputTag \in OneImageTags(domain) THEN 1 ELSE len(inputs)

\* two arrays of one shape, one element kind and the same elements
SameArray(a, b) ==
  /\ is_np_array(a)
  /\ a.shape = b.shape
  /\ a.data = b.data
  /\ DtypeKind(a.dtype) = DtypeKind(b.dtype)

\* a batch of N >= 1 images of coordinate rows: shape (N, K, width)
IsCoordBatch(v, width) ==
  /\ is_np_array(v)
  /\ DtypeKind(v.dtype) \in {"f", "i", "u"}
  /\ Len(v.shape) = 3
  /\ v.shape[1] >= 1
  /\ v.shape[3] = width

\* C1: a keypoint array (N,K,2) or a bounding box array (N,B,4) with exactly
\* N shapes, N >= 1, goes through the normalizer and its inverse without
\* error and comes back as one array of the same shape, values and dtype kind
C1_RoundTripCoordBatch ==
  ( /\ pc = "inverted"
    /\ \/ fn = "keypoints" /\ IsCoordBatch(inputs, 2)
       \/ fn = "bounding_boxes" /\ IsCoordBatch(inputs, 4)
    /\ ShapeCount = len(inputs) )
  => /\ ~Failed(augmentables)
     /\ ~Failed(restored)
     /\ SameArray(restored.val, inputs)

Empty == List(<<>>)
EmptyPair == List(<<Empty, Empty>>)

\* C2 as stated: normalize_heatmaps([]) and normalize_heatmaps([[], []]) with
\* shapes=None both return None without raising
C2_EmptyHeatmapsReturnNone ==
  ( /\ pc = "normalized"
    /\ fn = "heatmaps"
    /\ shapes.t = "None"
    /\ inputs \in {Empty, EmptyPair} )
  => /\ ~Failed(augmentables)
     /\ augmentables.val = NoneV

\* C2: normalize_heatmaps([], shapes=None) returns None; [[], []] is
\* classified as the nested-empty tag iterable-iterable[empty], which the
\* heatmap whitelist does not hold, so the call fails with the
\* unknown-datatype error
C2_EmptyHeatmaps ==
  ( /\ pc = "normalized"
    /\ fn = "heatmaps"
    /\ shapes.t = "None" )
  => /\ inputs = Empty =>
          /\ ~Failed(augmentables)
          /\ augmentables.val = NoneV
          /\ augmentables.tag = "iterable[empty]"
     /\ inputs = EmptyPair =>
          /\ augmentables.exc = "AssertionError"
          /\ augmentables.kind = "unknown_datatype"
          /\ augmentables.tag = "iterable-iterable[empty]"
          /\ augmentables.arg = "heatmaps"

C2_Witness ==
  /\ pc = "normalized"
  /\ fn = "heatmaps"
  /\ shapes.t = "None"
  /\ inputs = EmptyPair
  /\ augmentables.kind = "unknown_datatype"

\* C3: in normalize_heatmaps, normalize_segmentation_maps and
\* normalize_keypoints a branch that needs n shapes raises the
\* shape-count-mismatch error, reporting n and the number passed and returning
\* no containers, whenever shapes is None or holds another number of shapes;
\* with n shapes the check passes
C3_ShapeCountEnforced ==
  ( /\ pc = "normalized"
    /\ fn \in {"heatmaps", "segmentation_maps", "keypoints"}
    /\ NeedsShapes(fn) )
  => IF ShapeCount # RequiredShapes(fn)
     THEN /\ augmentables.exc = "ValueError"
          /\ augmentables.kind = "shape_count"
          /\ augmentables.n = RequiredShapes(fn)
          /\ augmentables.actual = ShapeCount
          /\ augmentables.tag = InputTag
          /\ augmentables.val = NoneV
     ELSE augmentables.kind # "shape_count"

\* a keypoint array of shape (3,K,2) with 2 shapes: required 3, actual 2
C3_Witness ==
  /\ pc = "normalized"
  /\ fn = "keypoints"
  /\ is_np_array(inputs)
  /\ inputs.shape = <<3, 1, 2>>
  /\ ShapeCount = 2
  /\ augmentables.kind = "shape_count"
  /\ augmentables.n = 3
  /\ augmentables.actual = 2

\* C4: in normalize_bounding_boxes and normalize_polygons a branch that needs
\* shapes reports shapes=None or a wrong number of shapes as the
\* shape-count-mismatch error that normalize_keypoints raises
C4_ShapeCountErrorKind ==
  ( /\ pc = "normalized"
    /\ fn \in {"bounding_boxes", "polygons"}
    /\ NeedsShapes(fn)
    /\ ShapeCount # RequiredShapes(fn) )
  => /\ augmentables.exc = "ValueError"
     /\ augmentables.kind = "shape_count"
     /\ augmentables.n = RequiredShapes(fn)
     /\ augmentables.actual = ShapeCount


\* the classifier of a domain either returns a tag of the whitelist or fails
\* with the unknown-datatype error naming argument, whitelist and tag
ClassifiedOrUnknown(domain, inp) ==
  LET c == Classify(domain, inp)
  IN IF Failed(c)
     THEN /\ c.exc = "AssertionError"
          /\ c.kind = "unknown_datatype"
          /\ c.arg = domain
          /\ c.valid = Whitelist(domain)
          /\ c.tag # ""
          /\ c.tag \notin Range(Whitelist(domain))
     ELSE c.tag \in Range(Whitelist(domain))

\* C5 as stated: for every domain and every input the classifier returns a
\* whitelisted tag or fails with the unknown-datatype error, and no forward
\* normalizer fails the assertion of its last else branch
C5_ClassifierTotal ==
  pc = "normalized"
  => /\ ClassifiedOrUnknown(fn, inputs)
     /\ augmentables.kind # "else_branch"

\* C5: for every domain and every input whose ancestor chain has at most 4
\* levels the classifier returns a whitelisted tag or fails with the
\* unknown-datatype error; an input with a longer chain fails the depth
\* assertion before a tag is computed; no forward normalizer fails the
\* assertion of its last else branch
C5_ClassifierTotalUpToCap ==
  pc = "normalized"
  => /\ IF Len(find_first_nonempty(inputs, <<>>).parents) <= MaxParents
        THEN ClassifiedOrUnknown(fn, inputs)
        ELSE /\ Classify(fn, inputs).exc = "AssertionError"
             /\ Classify(fn, inputs).kind = "too_deep"
     /\ augmentables.kind # "else_branch"

\* a tag outside the keypoint whitelist was refused by normalize_keypoints
C5_Witness ==
  /\ pc = "normalized"
  /\ fn = "keypoints"
  /\ InputTag = "iterable-iterable-iterable-tuple[number,size=2]"
  /\ augmentables.kind = "unknown_datatype"
  /\ augmentables.tag = InputTag

\* a 3-dimensional array whose last axis has 3 entries, with one shape per
\* image
IsWidth3Batch ==
  /\ is_np_array(inputs)
  /\ Len(inputs.shape) = 3
  /\ inputs.shape[3] = 3
  /\ ShapeCount = len(inputs)

\* C6 as stated: normalize_bounding_boxes of an array whose trailing axis has
\* size 3, with a matching number of shapes, raises the unknown-shape error
C6_Width3IsUnknownDatatype ==
  (pc = "normalized" /\ fn = "bounding_boxes" /\ IsWidth3Batch)
  => augmentables.kind = "unknown_datatype"

\* C6: normalize_bounding_boxes of a float, int or uint array whose trailing
\* axis has size 3, with a matching number of shapes, always fails, but with
\* the plain assertion on the trailing axis: the array is classified as the
\* whitelisted tag array[float|int|uint], and no container is returned
C6_Width3FailsAssertion ==
  ( /\ pc = "normalized"
    /\ fn = "bounding_boxes"
    /\ IsWidth3Batch
    /\ DtypeKind(inputs.dtype) \in {"f", "i", "u"} )
  => /\ augmentables.exc = "AssertionError"
     /\ augmentables.kind = "assert"
     /\ augmentables.tag \in ArrayTags
     /\ augmentables.tag \in Range(bounding_boxes_valid_type_strs)
     /\ augmentables.val = NoneV

C6_Witness ==
  /\ pc = "normalized"
  /\ fn = "bounding_boxes"
  /\ IsWidth3Batch
  /\ inputs.dtype = "float32"
  /\ augmentables.kind = "assert"

\* C7: the inverse normalizer of every domain selects its branch from the
\* classification outcome the forward normalizer obtains for the same original
\* input: the same tag, or the same unknown-datatype failure
C7_InverseClassifiesAsForward ==
  pc = "inverted"
  => LET c == Classify(fn, inputs)
     IN IF Failed(c) THEN restored = c ELSE restored.tag = c.tag

\* the arrays of a heatmap or segmentation map input: element kinds, number
\* of axes of a batch
MapKinds(domain) == IF domain = "heatmaps" THEN {"f"} ELSE {"i", "u", "b"}
BatchRank(domain) == IF domain = "heatmaps" THEN 4 ELSE 3
CanonicalClass(domain) ==
  IF domain = "heatmaps" THEN "HeatmapsOnImage" ELSE "SegmentationMapOnImage"

IsMapArray(domain, v, rank) ==
  /\ is_np_array(v)
  /\ DtypeKind(v.dtype) \in MapKinds(domain)
  /\ Len(v.shape) = rank

\* res is an array of the shape and element kind of orig
SameShapeAndKind(orig, res) ==
  /\ is_np_array(res)
  /\ res.shape = orig.shape
  /\ DtypeKind(res.dtype) = DtypeKind(orig.dtype)

LiteralTags(domain) ==
  CASE domain = "keypoints" ->
         {IterPrefix(k) \o leaf :
            k \in 0..2, leaf \in {"tuple[number,size=2]", "Keypoint"}}
    [] domain = "bounding_boxes" ->
         {IterPrefix(k) \o leaf :
            k \in 0..2, leaf \in {"tuple[number,size=4]", "BoundingBox"}}
    [] domain = "polygons" ->
         {IterPrefix(k) \o leaf :
            k \in 1..3, leaf \in {"tuple[number,size=2]", "Keypoint"}}
         \cup {IterPrefix(k) \o "Polygon" : k \in 0..2}

\* res has the nesting of orig, the same length at every level and the same
\* coordinates in the same order; with 'rounded' a coordinate of res is the
\* float32 value of the coordinate of orig
RECURSIVE SameCoords(_, _, _)
SameCoords(orig, res, rounded) ==
  CASE orig.t = "num" ->
         /\ res.t = "num"
         /\ ValueOf(res) = IF rounded THEN ToFloat32(ValueOf(orig))
                           ELSE ValueOf(orig)
    [] orig.t \in {"list", "tuple"} ->
         /\ res.t \in {"list", "tuple"}
         /\ (\A i \in 1..Len(orig.items) : orig.items[i].t = "num")
              => res.t = orig.t
         /\ Len(res.items) = Len(orig.items)
         /\ \A i \in 1..Len(orig.items) :
              SameCoords(orig.items[i], res.items[i], rounded)
    [] orig.t = "obj" /\ orig.cls \in {"Keypoint", "BoundingBox"} ->
         /\ res.t = "obj"
         /\ res.cls = orig.cls
         /\ Len(res.items) = Len(orig.items)
         /\ \A i \in 1..Len(orig.items) :
              SameCoords(orig.items[i], res.items[i], rounded)
    [] orig.t = "obj" /\ orig.cls = "Polygon" -> res = orig
    [] OTHER -> FALSE

LiteralRoundTrip ==
  /\ pc = "inverted"
  /\ fn \in {"keypoints", "bounding_boxes", "polygons"}
  /\ InputTag \in LiteralTags(fn)
  /\ InputTag \in Range(Whitelist(fn))
  /\ ShapeCount = RequiredShapes(fn)

\* C9 as stated: for keypoints, bounding boxes and polygons every whitelisted
\* literal-tuple or leaf-object input, with the number of shapes its branch
\* needs, comes back from the inverse with the same nesting depth, the same
\* length at every level and the same coordinates in the same order
C9_LiteralRoundTripExact ==
  LiteralRoundTrip
  => /\ ~Failed(augmentables)
     /\ ~Failed(restored)
     /\ SameCoords(inputs, restored.val, FALSE)

\* the branches that pass the coordinates through a float32 array
ThroughFloat32(domain, tag) ==
  \/ /\ domain \in {"keypoints", "bounding_boxes"}
     /\ tag \in {"iterable-iterable-tuple[number,size=2]",
                 "iterable-iterable-tuple[number,size=4]"}
  \/ /\ domain = "polygons"
     /\ tag \notin {IterPrefix(k) \o "Polygon" : k \in 0..2}

\* C9: the input comes back with the same nesting depth, the same length at
\* every level and its coordinates in the same order; in the branches that
\* pass coordinates through a float32 array (keypoints and bounding boxes:
\* iterable-iterable-tuple; polygons: every tuple and Keypoint branch) a
\* coordinate comes back as its float32 value, in the others unchanged
C9_LiteralRoundTrip ==
  LiteralRoundTrip
  => /\ ~Failed(augmentables)
     /\ ~Failed(restored)
     /\ SameCoords(inputs, restored.val, ThroughFloat32(fn, InputTag))

\* a keypoint coordinate 2^24 + 1 came back as 2^24
C9_Witness ==
  /\ LiteralRoundTrip
  /\ fn = "keypoints"
  /\ InputTag = "iterable-iterable-tuple[number,size=2]"
  /\ ValueOf(Index(Index(Index(inputs, 1), 1), 1)) = BigCoord
  /\ ~Failed(restored)
  /\ ValueOf(Index(Index(Index(restored.val, 1), 1), 1)) = Pow2_24

\* C10: normalize_bounding_boxes((x1,y1,x2,y2), shapes=[s]) returns a list of
\* one container of shape s that holds one bounding box with these four
\* coordinates in this order
C10_SingleBoxWrapped ==
  ( /\ pc = "normalized"
    /\ fn = "bounding_boxes"
    /\ inputs.t = "tuple"
    /\ Len(inputs.items) = 4
    /\ \A i \in 1..4 : is_single_number(inputs.items[i])
    /\ ShapeCount = 1 )
  => /\ ~Failed(augmentables)
     /\ augmentables.val.t = "list"
     /\ len(augmentables.val) = 1
     /\ LET bbsoi == Index(augmentables.val, 1)
        IN /\ bbsoi.cls = "BoundingBoxesOnImage"
           /\ bbsoi.shape = Dims(Index(_preprocess_shapes(shapes).val, 1))
           /\ len(bounding_boxes_of(bbsoi)) = 1
           /\ LET bb == Index(bounding_boxes_of(bbsoi), 1)
              IN /\ bb.cls = "BoundingBox"
                 /\ \A i \in 1..4 : bb.items[i] = inputs.items[i]

C10_Witness ==
  /\ pc = "normalized"
  /\ fn = "bounding_boxes"
  /\ inputs = Tuple(<<Num(1), Num(2), Num(5), Num(6)>>)
  /\ ShapeCount = 1
  /\ ~Failed(augmentables)
  /\ len(augmentables.val) = 1

\* the class of the canonical container of a domain
ContainerClass(domain) ==
  CASE domain = "heatmaps" -> "HeatmapsOnImage"
    [] domain = "segmentation_maps" -> "SegmentationMapOnImage"
    [] domain = "keypoints" -> "KeypointsOnImage"
    [] domain = "bounding_boxes" -> "BoundingBoxesOnImage"
    [] domain = "polygons" -> "PolygonsOnImage"

\* the i-th shape descriptor supplied: the i-th tuple of a list of shapes, the
\* shape of the i-th image of a batch of images
SuppliedShape(i) ==
  IF is_np_array(shapes) THEN Tail(shapes.shape) ELSE Dims(shapes.items[i])

\* C11: a list returned through a branch that needs shapes holds one
\* container of the domain's class per shape supplied and per logical image
\* of the input, the i-th carrying the i-th shape; a list of canonical
\* containers is returned as it is, whatever 'shapes' is
C11_OneContainerPerShape ==
  ( /\ pc = "normalized"
    /\ ~Failed(augmentables) )
  => /\ InputTag \in (OneImageTags(fn) \cup PerElementTags(fn)) =>
          /\ isinstance_list(augmentables.val)
          /\ len(augmentables.val) = ShapeCount
          /\ len(augmentables.val) = RequiredShapes(fn)
          /\ \A i \in 1..len(augmentables.val) :
               /\ augmentables.val.items[i].cls = ContainerClass(fn)
               /\ augmentables.val.items[i].shape = SuppliedShape(i)
     /\ InputTag = "iterable-" \o ContainerClass(fn) =>
          augmentables.val = inputs

\* three levels of lists around a point tuple, two images, a batch of two
\* images as 'shapes'
C11_Witness ==
  /\ pc = "normalized"
  /\ fn = "polygons"
  /\ InputTag = "iterable-iterable-iterable-tuple[number,size=2]"
  /\ is_np_array(shapes)
  /\ ~Failed(augmentables)
  /\ len(augmentables.val) = 2
  /\ augmentables.val.items[2].shape = <<1, 1, 3>>

\* a list of two canonical containers handed over with three shapes
C11_WitnessPassThrough ==
  /\ pc = "normalized"
  /\ InputTag = "iterable-" \o ContainerClass(fn)
  /\ len(inputs) = 2
  /\ ShapeCount = 3
  /\ augmentables.val = inputs

\* a list of N >= 1 arrays of coordinate rows (K_i, 2) of one dtype
IsKeypointArrayList(v) ==
  /\ isinstance_list(v)
  /\ len(v) >= 1
  /\ \A i \in 1..len(v) :
       /\ is_np_array(v.items[i])
       /\ Len(v.items[i].shape) = 2
       /\ v.items[i].shape[2] = 2
       /\ v.items[i].dtype = v.items[1].dtype
       /\ DtypeKind(v.items[i].dtype) \in {"f", "i", "u"}

\* the per-image point counts of a list of coordinate arrays
PointCounts(v) == {v.items[i].shape[1] : i \in 1..len(v)}

\* C12: a list of N per-image keypoint arrays with N shapes comes back from
\* normalize_keypoints and invert_normalize_keypoints as a list of N arrays,
\* the i-th with the point count, the coordinates and the element kind of the
\* i-th input array, whether the point counts differ or are all equal
C12_RaggedKeypointArrays ==
  ( /\ pc = "inverted"
    /\ fn = "keypoints"
    /\ IsKeypointArrayList(inputs)
    /\ ShapeCount = len(inputs) )
  => /\ ~Failed(augmentables)
     /\ ~Failed(restored)
     /\ isinstance_list(restored.val)
     /\ len(restored.val) = len(inputs)
     /\ \A i \in 1..len(inputs) :
          SameArray(restored.val.items[i], inputs.items[i])

\* three images with 2, 1 and 2 points
C12_Witness ==
  /\ pc = "inverted"
  /\ fn = "keypoints"
  /\ IsKeypointArrayList(inputs)
  /\ len(inputs) = 3
  /\ Cardinality(PointCounts(inputs)) = 2
  /\ ShapeCount = 3
  /\ isinstance_list(restored.val)
  /\ restored.val.items[2].shape = <<1, 2>>

\* two images with one point each: the result is still a list
C12_WitnessEqualCounts ==
  /\ pc = "inverted"
  /\ fn = "keypoints"
  /\ IsKeypointArrayList(inputs)
  /\ len(inputs) = 2
  /\ Cardinality(PointCounts(inputs)) = 1
  /\ ShapeCount = 2
  /\ isinstance_list(restored.val)

\* a sequence that holds nothing but sequences of this kind
RECURSIVE IsNestedEmpty(_)
IsNestedEmpty(v) ==
  /\ v.t \in {"list", "tuple"}
  /\ \A i \in 1..Len(v.items) : IsNestedEmpty(v.items[i])

\* the greatest number of sequences around an element of v, v included
RECURSIVE NestingDepth(_)
NestingDepth(v) ==
  IF v.t \notin {"list", "tuple"}
  THEN 0
  ELSE 1 + (IF Len(v.items) = 0 THEN 0
            ELSE CHOOSE d \in {NestingDepth(v.items[i]) : i \in 1..Len(v.items)} :
                   \A i \in 1..Len(v.items) : NestingDepth(v.items[i]) <= d)

IsSequence(v) == v.t \in {"list", "tuple"}

\* the leaves of v in depth-first, left-to-right order, each with the
\* containers from the root down to it
RECURSIVE LeafPaths(_, _)
LeafPaths(v, chain) ==
  IF IsSequence(v)
  THEN Flatten([i \in 1..Len(v.items) |->
                  LeafPaths(v.items[i], Append(chain, v))])
  ELSE <<[leaf |-> v, chain |-> chain]>>

\* the ancestor chains of the empty sequences of v, in the same order
RECURSIVE EmptyChains(_, _)
EmptyChains(v, chain) ==
  IF ~IsSequence(v)
  THEN <<>>
  ELSE IF Len(v.items) = 0
  THEN <<chain>>
  ELSE Flatten([i \in 1..Len(v.items) |->
                  EmptyChains(v.items[i], Append(chain, v))])

\* C14: find_first_nonempty returns the first leaf in depth-first,
\* left-to-right order with found = TRUE and the containers from the root to
\* that leaf, whatever empty sequences come before it; without any leaf it
\* returns found = FALSE with the first of the longest ancestor chains of the
\* empty sequences of the input
C14_FirstLeafOrDeepestEmpty ==
  pc = "normalized" =>
    LET r == find_first_nonempty(inputs, <<>>)
        lp == LeafPaths(inputs, <<>>)
        ec == EmptyChains(inputs, <<>>)
    IN IF Len(lp) > 0
       THEN r = Found(lp[1].leaf, TRUE, lp[1].chain)
       ELSE /\ r.success = FALSE
            /\ r.nonempty = NoneV
            /\ \E k \in 1..Len(ec) :
                 /\ r.parents = ec[k]
                 /\ \A j \in 1..Len(ec) : Len(ec[j]) <= Len(ec[k])
                 /\ \A j \in 1..(k - 1) : Len(ec[j]) < Len(ec[k])

\* [[[]], [[], []]]: two chains of the greatest length, the first is returned
C14_Witness ==
  /\ pc = "normalized"
  /\ LET ec == EmptyChains(inputs, <<>>)
         r == find_first_nonempty(inputs, <<>>)
     IN /\ Len(LeafPaths(inputs, <<>>)) = 0
        /\ Len(ec) = 3
        /\ Len(ec[1]) = Len(ec[2])
        /\ ec[1] # ec[2]
        /\ ~r.success
        /\ r.parents = ec[1]

\* a leaf found behind a deeper empty sibling
C14_WitnessLeaf ==
  /\ pc = "normalized"
  /\ LET r == find_first_nonempty(inputs, <<>>)
     IN /\ Len(EmptyChains(inputs, <<>>)) > 0
        /\ r.success
        /\ r.nonempty = Num(7)
        /\ Len(r.parents) = 1

\* the tags without any "iterable-" prefix
BaseTags ==
  {"None", "iterable[empty]", "int", "str", "float32"}
  \cup {"array[" \o k \o "]" : k \in {"float", "int", "uint", "bool", "c"}}
  \cup {"tuple[number,size=" \o ToString(k) \o "]" : k \in 1..4}
  \cup {"Keypoint", "BoundingBox", "Polygon", "KeypointsOnImage",
        "BoundingBoxesOnImage", "PolygonsOnImage", "HeatmapsOnImage",
        "SegmentationMapOnImage"}

\* the number of "iterable-" prefixes of a tag, -1 when it is no tag
PrefixCount(tag) ==
  IF \E n \in 0..MaxParents : \E b \in BaseTags : tag = IterPrefix(n) \o b
  THEN CHOOSE n \in 0..MaxParents :
         \E b \in BaseTags : tag = IterPrefix(n) \o b
  ELSE 0 - 1

\* what the finder returns for the current input
FoundInInput == find_first_nonempty(inputs, <<>>)
\* the classifier returns a tag for the current input
HasTag == ~Failed(estimate_normalization_type(inputs))

\* the leaf found lies directly in a non-empty tuple of numbers
LeafInNumberTuple ==
  LET parents == FoundInInput.parents
      last == parents[Len(parents)]
  IN /\ FoundInInput.success
     /\ Len(parents) >= 1
     /\ isinstance_tuple(last)
     /\ Len(last.items) > 0
     /\ \A i \in 1..Len(last.items) : last.items[i].t = "num"

\* L prefixes for a not-found result, L - 1 for a leaf in a tuple of K
\* numbers
PrefixesOfEmptyAndTuple ==
  LET L == Len(FoundInInput.parents)
  IN /\ ~FoundInInput.success =>
          InputTag = IterPrefix(L) \o "iterable[empty]"
     /\ LeafInNumberTuple =>
          InputTag = IterPrefix(L - 1) \o "tuple[number,size="
                     \o ToString(Len(FoundInInput.parents[L].items)) \o "]"

\* C15: with L the length of the ancestor chain, a tag has L prefixes for a
\* not-found result, L - 1 for a leaf lying in a tuple of numbers and L for
\* any other found leaf, None, array or object alike, so that only the bare
\* None is tagged "None"
C15_PrefixCountIsChainLength ==
  (pc = "normalized" /\ HasTag)
  => /\ PrefixesOfEmptyAndTuple
     /\ (FoundInInput.success /\ ~LeafInNumberTuple) =>
          PrefixCount(InputTag) = Len(FoundInInput.parents)
     /\ InputTag = "None" => inputs = NoneV

\* parents is a chain of containers: it starts at the root and each container
\* holds the next
IsChainFrom(root, parents) ==
  /\ Len(parents) > 0 => parents[1] = root
  /\ \A i \in 1..(Len(parents) - 1) :
       /\ IsSequence(parents[i])
       /\ \E j \in 1..Len(parents[i].items) :
            parents[i].items[j] = parents[i + 1]

\* C16: find_first_nonempty returns a (leaf, found, ancestors) triple for
\* every nested input, the ancestors being a chain of containers from the
\* root; estimate_normalization_type fails, on the depth assertion, exactly
\* when that chain holds more than 4 containers and returns a tag otherwise,
\* so that no tag has more than 4 levels
C16_FailsExactlyBeyondCap ==
  pc = "normalized" =>
    LET r == FoundInInput
        e == estimate_normalization_type(inputs)
    IN /\ r.success \in BOOLEAN
       /\ IsChainFrom(inputs, r.parents)
       /\ r.success =>
            \/ Len(r.parents) = 0 /\ r.nonempty = inputs
            \/ /\ Len(r.parents) > 0
               /\ \E j \in 1..Len(r.parents[Len(r.parents)].items) :
                    r.parents[Len(r.parents)].items[j] = r.nonempty
       /\ Failed(e) <=> Len(r.parents) > 4
       /\ Failed(e) => (e.exc = "AssertionError" /\ e.kind = "too_deep")
       /\ ~Failed(e) => PrefixCount(e.tag) \in 0..4

\* empty lists nested so that the deepest has five ancestors: no tag
C16_Witness ==
  /\ pc = "normalized"
  /\ ~FoundInInput.success
  /\ Len(FoundInInput.parents) = 5
  /\ estimate_normalization_type(inputs).kind = "too_deep"

\* the result of one member of a list handed to restore_dtype_and_merge
MemberResult(i) == restore_dtype_and_merge(arr.items[i], input_dtype)

\* every array in v, at whatever depth of lists, has the dtype kind
RECURSIVE AllOfKind(_, _)
AllOfKind(v, kind) ==
  IF is_np_array(v)
  THEN DtypeKind(v.dtype) = kind
  ELSE /\ isinstance_list(v)
       /\ \A i \in 1..Len(v.items) : AllOfKind(v.items[i], kind)

\* C17: restore_dtype_and_merge on a list of arrays or a list of lists of
\* arrays never fails; it returns one block array when the results of the
\* members all have one shape and otherwise the list of the members' results
\* in their order, and every array returned has the kind of the target dtype
C17_MergeOrKeepList ==
  (pc = "merged" /\ isinstance_list(arr))
  => /\ ~Failed(merged)
     /\ AllOfKind(merged.val, DtypeKind(input_dtype))
     /\ \A i \in 1..len(arr) : ~Failed(MemberResult(i))
     /\ IF /\ len(arr) > 0
           /\ \A i \in 1..len(arr) : is_np_array(MemberResult(i).val)
           /\ \A i \in 1..len(arr) :
                MemberResult(i).val.shape = MemberResult(1).val.shape
        THEN /\ is_np_array(merged.val)
             /\ merged.val.shape
                  = <<len(arr)>> \o MemberResult(1).val.shape
        ELSE /\ isinstance_list(merged.val)
             /\ len(merged.val) = len(arr)
             /\ \A i \in 1..len(arr) :
                  merged.val.items[i] = MemberResult(i).val

\* the canonical list handed to the inverse is not as long as the list the
\* normalizer produced for the original input
WrongLength ==
  /\ ~Failed(Forward(fn))
  /\ isinstance_list(Forward(fn).val)
  /\ isinstance_list(augmentables.val)
  /\ len(augmentables.val) # len(Forward(fn).val)

\* C18: an inverse normalizer handed a canonical list whose length is not the
\* number of containers the normalizer produces for the original input
\* rejects it by an assertion and returns nothing
C18_WrongLengthRejected ==
  (pc = "inverted" /\ WrongLength)
  => /\ Failed(restored)
     /\ restored.exc = "AssertionError"

\* C19: find_first_nonempty returns on every input: a list whose first
\* element is the list itself is returned as its own leaf with found = TRUE,
\* and the recursion also ends when the list holds itself at another position
\* or through another list
C19_TerminatesOnSelfReference ==
  pc = "found" =>
    /\ found.exc = ""
    /\ (Len(heap[1]) > 0 /\ heap[1][1] = 1) =>
         found = FoundRef(1, TRUE, <<>>, "")

====
